---- MODULE Spec2Model ----
(***************************************************************************)
(* Model of the call module of the Twilio Programmable Voice toolkit       *)
(* (call.js): the Call class, the registry currentCalls, the Express       *)
(* routes /webhook, /status, /dial, /inbound and /amd, and Call.makeCall.  *)
(*                                                                         *)
(* A Promise is a record of the sequence promises; the resolving functions *)
(* a Call keeps (#webhookFulfill, #webhookReject, #twimlFulfill,           *)
(* #twimlReject) are indices into it, 0 standing for undefined.  Calling   *)
(* a resolving function of a settled Promise does nothing; calling an      *)
(* undefined one throws a TypeError, which aborts the handler (HTTP 500)   *)
(* or, inside a Promise executor, rejects the Promise under construction.  *)
(***************************************************************************)
EXTENDS Naturals, Sequences, FiniteSets, TLC

VARIABLES
    calls,          \* every Call object constructed so far, by object index
    currentCalls,   \* the registry: call SID -> index of a Call object, 0 when absent
    promises,       \* every Promise constructed so far
    creates,        \* client.calls.create() requests in flight
    issued,         \* call SIDs the provider has already assigned
    scriptRefs,     \* Call objects that script code holds a reference to
    last,           \* the operation that ran last and its synchronous outcome
    steps,          \* the number of operations run so far
    budget,         \* the number of operations a run may have
    twimlProxy,     \* the VoiceResponse proxy made by makeTwiml() (utils/twiml.js)
    timeouts        \* the Timeout objects made so far and the microtask queue (utils/timeout.js)

vars == <<calls, currentCalls, promises, creates, issued, scriptRefs, last, steps,
          budget, twimlProxy, timeouts>>

----------------------------------------------------------------------------
(* Bounds of the model *)

MaxSteps == 5
MaxLongSteps == 7
MaxShortSteps == 4
MaxCalls == 2
MaxPromises == 4
MaxVerbs == 1
MaxChildCalls == 2
MaxElements == 2
MaxTimeouts == 1
MaxTimeoutSteps == 8
MaxValidateSteps == 2

Sids == {"CA1", "CA2"}

Undefined == "undefined"

Statuses ==
    {"queued", "initiated", "ringing", "in-progress",
     "completed", "busy", "no-answer", "canceled", "failed"}

----------------------------------------------------------------------------
(* Promises *)

NoValue == [tag |-> "none", call |-> 0, twiml |-> <<>>]
CallValue(c) == [tag |-> "call", call |-> c, twiml |-> <<>>]
CallEndedException(c) == [tag |-> "CallEndedException", call |-> c, twiml |-> <<>>]
ErrorValue(kind) == [tag |-> kind, call |-> 0, twiml |-> <<>>]
TwimlValue(twiml) == [tag |-> "twiml", call |-> 0, twiml |-> twiml]

NewPromise(kind) == [kind |-> kind, state |-> "pending", value |-> NoValue]

\* fulfill(value) or reject(value) of Promise p: only a pending Promise changes.
Settle(ps, p, state, value) ==
    IF ps[p].state = "pending"
    THEN [ps EXCEPT ![p] = [kind |-> ps[p].kind, state |-> state, value |-> value]]
    ELSE ps

\* The Call objects the script learns of when Promise p is settled with value.
Learns(ps, p, value) ==
    IF ps[p].state = "pending" /\ value.tag \in {"call", "CallEndedException"}
    THEN {value.call}
    ELSE {}

----------------------------------------------------------------------------
(* Call properties *)

PropertyMappings ==
    [sid |-> "sid", CallSid |-> "sid", parentCallSid |-> "parentCallSid",
     to |-> "to", To |-> "to", from |-> "from", From |-> "from",
     callerName |-> "callerName", CallerName |-> "callerName",
     status |-> "status", CallStatus |-> "status",
     duration |-> "duration", Duration |-> "duration",
     direction |-> "direction", forwardedFrom |-> "forwardedFrom",
     queueTime |-> "queueTime", StirStatus |-> "stirStatus",
     StirVerstat |-> "stirVerstat", StirPassportToken |-> "stirPassportToken",
     CallToken |-> "callToken", SipResponseCode |-> "sipResponseCode",
     ErrorCode |-> "errorCode", ErrorMessage |-> "errorMessage",
     Digits |-> "digits", FinishedOnKey |-> "finishedOnKey",
     SpeechResult |-> "speechResult", Confidence |-> "confidence",
     answeredBy |-> "answeredBy", AnsweredBy |-> "answeredBy",
     MachineDetectionDuration |-> "machineDetectionDuration",
     DialCallStatus |-> "dialCallStatus", DialCallSid |-> "dialCallSid",
     DialCallDuration |-> "dialCallDuration"]

PropertyNames == {PropertyMappings[f] : f \in DOMAIN PropertyMappings}

\* `property in Call.propertyMappings` is also true of the names the object
\* returned by the getter inherits from Object.prototype; the value found
\* under such a name is a function, and as a property key it is its text.
Inherited == [toString |-> "function toString() { [native code] }"]

\* The names for which `name in Call.propertyMappings` is true.
Listed == DOMAIN PropertyMappings \cup DOMAIN Inherited

\* property in Call.propertyMappings
In(property) == property \in Listed

\* Call.propertyMappings[property], as a property key
Mapped(property) ==
    IF property \in DOMAIN PropertyMappings THEN PropertyMappings[property]
    ELSE Inherited[property]

\* The keys the merge can give a Call or a childCalls record.
Keys == PropertyNames \cup {Inherited[f] : f \in DOMAIN Inherited}

\* The properties of an object: a property that is not set is Undefined.
NoProperties == [n \in Keys |-> Undefined]

Prop(props, name) == props[name]

SetProp(props, name, value) == [props EXCEPT ![name] = value]

DeleteProps(props, names) ==
    [n \in Keys |-> IF n \in names THEN Undefined ELSE props[n]]

\* A request body or an API result is a sequence of <<field, value>> pairs.
RECURSIVE updateProperties(_, _)
updateProperties(props, properties) ==
    IF properties = <<>> THEN props
    ELSE LET property == Head(properties)[1]
             value == Head(properties)[2]
         IN  updateProperties(
                 IF In(property)
                 THEN SetProp(props, Mapped(property), value)
                 ELSE props,
                 Tail(properties))

\* The record appended to childCalls: only the mapped fields of the body.
childProperties(properties) == updateProperties(NoProperties, properties)

\* request.body.CallSid
RECURSIVE Field(_, _)
Field(body, name) ==
    IF body = <<>> THEN Undefined
    ELSE IF Head(body)[1] = name THEN Head(body)[2]
         ELSE Field(Tail(body), name)

NewCall(properties, webhook) ==
    [props |-> updateProperties(NoProperties, properties),
     eventSource |-> Undefined,
     scriptContinues |-> TRUE,
     webhookFulfill |-> webhook,
     webhookReject |-> webhook,
     twimlFulfill |-> 0,
     twimlReject |-> 0,
     voiceResponse |-> <<>>,
     childCalls |-> <<>>]

CallIds == 1 .. Len(calls)

\* The record kept in last: the operation, the Call it ran on (0 for none), its
\* synchronous outcome, the Promise it settled (0 for none) and the options it
\* passed to client.calls.create() (<<>> when it did not call it).
Outcome(op, c, result, p) ==
    [op |-> op, call |-> c, result |-> result, settled |-> p, created |-> <<>>,
     sid |-> Undefined]

\* The Promise that calling the resolving function p settles: p when pending.
Settled(ps, p) == IF p # 0 /\ ps[p].state = "pending" THEN p ELSE 0

----------------------------------------------------------------------------
\* No Timeout has been constructed and no Promise reaction job is queued.
NoTimeouts == [made |-> <<>>, jobs |-> <<>>]

\* The state after setup(): no call, no request, no Promise.
Started ==
    /\ timeouts = NoTimeouts
    /\ calls = <<>>
    /\ currentCalls = [s \in Sids |-> 0]
    /\ promises = <<>>
    /\ creates = {}
    /\ issued = {}
    /\ scriptRefs = {}
    /\ last = Outcome("setup", 0, "ok", 0)
    /\ steps = 0

\* The builder before any verb: its validation profile and its document.
\* result is the verb called last and what the call threw.
Twiml(internal) ==
    [internal |-> internal, response |-> <<>>,
     result |-> [op |-> "new", verb |-> Undefined, noun |-> Undefined,
                 args |-> <<>>, thrown |-> "none"]]

Init == Started /\ budget = MaxSteps /\ twimlProxy = Twiml(FALSE)

\* Runs of at most budget operations are explored; an operation of the call
\* module does not touch a builder of makeTwiml().
Tick ==
    /\ steps < budget
    /\ steps' = steps + 1
    /\ UNCHANGED <<budget, twimlProxy, timeouts>>

----------------------------------------------------------------------------
(* Call.#validateOptions and Call.makeCall *)

\* Options are a sequence of <<name, value>> pairs in key order; a value is a
\* sequence of strings (the list of statusCallbackEvent, <<>> for the others).
NotAllowedOptions ==
    {"accountSid", "method", "fallbackUrl", "fallbackMethod", "statusCallback",
     "statusCallbackMethod", "url", "twiml", "applicationSid", "action",
     "partialResultsCallback", "partialResultsCallbackMethod", "actionOnEmptyResult"}

DuplicateOptions == {"to", "from"}

ReferOptions == {"referUrl", "referMethod"}

\* An includes() that never finds the element.
IncludesNothing(list, x) == FALSE

Includes(list, x) == \E i \in 1 .. Len(list) : list[i] = x

\* The for-in loop from key i on; keys added by the loop are not visited.
RECURSIVE validateFrom(_, _, _)
validateFrom(options, keys, i) ==
    IF i > Len(keys) THEN [thrown |-> "none", options |-> options]
    ELSE LET option == keys[i]
         IN  IF option \in NotAllowedOptions \cup DuplicateOptions \cup ReferOptions
             THEN [thrown |-> "Error", options |-> options]
             ELSE IF option = "statusCallbackEvent"
             THEN validateFrom(
                      [k \in 1 .. Len(options) |->
                          IF options[k][1] = "statusCallbackEvent"
                             /\ ~Includes(options[k][2], "completed")
                          THEN <<options[k][1], Append(options[k][2], "completed")>>
                          ELSE options[k]],
                      keys, i + 1)
             ELSE IF option = "asyncAmd"
             THEN validateFrom(
                      options \o << <<"asyncAmdStatusCallback", <<"/amd">> >>,
                                    <<"asyncAmdStatusCallbackMethod", <<"POST">> >> >>,
                      keys, i + 1)
             ELSE validateFrom(options, keys, i + 1)

validateOptions(options) ==
    validateFrom(options, [k \in 1 .. Len(options) |-> options[k][1]], 1)

\* What the script may pass as to / from: a number, or undefined.
Numbers == {"+15550100", Undefined}

\* Lists of status callback events a script may ask for.
EventLists ==
    { <<>>, <<"ringing">>, <<"completed">>, <<"ringing", "completed">>,
      <<"completed", "answered">>, <<"initiated", "answered">> }

\* Options with a statusCallbackEvent list, alone and next to other options.
EventOptions ==
    { << <<"statusCallbackEvent", e>> >> : e \in EventLists }
    \cup { << <<"statusCallbackEvent", e>>, <<o, <<>> >> >> :
             e \in EventLists, o \in {"machineDetection", "asyncAmd", "url"} }
    \cup { << <<"machineDetection", <<>> >>, <<"statusCallbackEvent", e>> >> :
             e \in EventLists }

MakeCallOptions ==
    { <<>> }
    \cup { << <<o, <<>> >> >> :
             o \in {"url", "fallbackUrl", "statusCallback", "recordingStatusCallback",
                    "amdStatusCallback", "applicationSid", "to", "referUrl",
                    "machineDetection", "asyncAmd"} }
    \cup { << <<"statusCallbackEvent", e>> >> :
             e \in { <<"ringing">>, <<"ringing", "completed">> } }

\* The options client.calls.create() receives after to and from.
CreateOptions(options) ==
    options \o << <<"url", <<"/webhook?source=makeCall">> >>,
                  <<"statusCallback", <<"/status">> >> >>

\* A create() request in flight, with the Promise makeCall() returned for it.
CreateRequest(p, to, from) == [promise |-> p, to |-> to, from |-> from]

makeCall(to, from, options) ==
    LET v == validateOptions(options)
        p == Len(promises) + 1
    IN  IF v.thrown # "none"
        THEN /\ last' = Outcome("makeCall", 0, v.thrown, 0)
             /\ UNCHANGED <<calls, currentCalls, promises, creates, issued, scriptRefs>>
        ELSE /\ Len(promises) < MaxPromises
             /\ promises' = Append(promises, NewPromise("script"))
             /\ creates' = creates \cup {CreateRequest(p, to, from)}
             /\ last' = [Outcome("makeCall", 0, "promise", 0)
                            EXCEPT !.created = CreateOptions(v.options)]
             /\ UNCHANGED <<calls, currentCalls, issued, scriptRefs>>

MakeCall == Tick /\ makeCall("+15550100", "+15550111", <<>>)

MakeCallAny == \E to \in Numbers, from \in Numbers, options \in MakeCallOptions :
                   /\ Tick
                   /\ to = Undefined => from # Undefined
                   /\ makeCall(to, from, options)

MakeCallWithEvents == \E to \in Numbers, from \in Numbers, options \in EventOptions :
                          /\ Tick
                          /\ to = Undefined => from # Undefined
                          /\ makeCall(to, from, options)

\* The provider assigns call SIDs in order, each once.
NextSid == IF "CA1" \notin issued THEN "CA1"
           ELSE IF "CA2" \notin issued THEN "CA2" ELSE Undefined

\* The call resource the provider returns for request r.
callProperties(r, sid) ==
    << <<"sid", sid>>, <<"to", r.to>>, <<"from", r.from>>, <<"status", "queued">>,
       <<"direction", "outbound-api">>, <<"uri", "/Calls/" >> >>

\* A .then() that also hands the new Call to fulfill() at once.
createFulfilledEarly(r, sid) ==
    LET call == [NewCall(callProperties(r, sid), r.promise) EXCEPT !.eventSource = "api"]
        c == Len(calls) + 1
    IN  /\ r \in creates
        /\ r.to # Undefined /\ r.from # Undefined
        /\ sid = NextSid
        /\ Len(calls) < MaxCalls
        /\ calls' = Append(calls, call)
        /\ currentCalls' = [currentCalls EXCEPT ![Prop(call.props, "sid")] = c]
        /\ creates' = creates \ {r}
        /\ issued' = issued \cup {sid}
        /\ promises' = Settle(promises, r.promise, "fulfilled", CallValue(c))
        /\ scriptRefs' = scriptRefs \cup {c}
        /\ last' = Outcome("create.then", c, "ok", Settled(promises, r.promise))

\* .then(callProperties => ...) of makeCall
createFulfilled(r, sid) ==
    LET call == [NewCall(callProperties(r, sid), r.promise) EXCEPT !.eventSource = "api"]
        c == Len(calls) + 1
    IN  /\ r \in creates
        /\ r.to # Undefined /\ r.from # Undefined
        /\ sid = NextSid
        /\ Len(calls) < MaxCalls
        /\ calls' = Append(calls, call)
        /\ currentCalls' = [currentCalls EXCEPT ![Prop(call.props, "sid")] = c]
        /\ creates' = creates \ {r}
        /\ issued' = issued \cup {sid}
        /\ last' = Outcome("create.then", c, "ok", 0)
        /\ UNCHANGED <<promises, scriptRefs>>

CreateFulfilled == \E r \in creates, sid \in Sids : Tick /\ createFulfilled(r, sid)

\* A .catch() that swallows the failure instead of passing it to reject().
createSwallowed(r) ==
    /\ r \in creates
    /\ creates' = creates \ {r}
    /\ last' = Outcome("create.catch", 0, "ok", 0)
    /\ UNCHANGED <<calls, currentCalls, promises, issued, scriptRefs>>

\* .catch(err => reject(err)) of makeCall
createRejected(r) ==
    /\ r \in creates
    /\ promises' = Settle(promises, r.promise, "rejected", ErrorValue("Error"))
    /\ creates' = creates \ {r}
    /\ last' = Outcome("create.catch", 0, "ok", Settled(promises, r.promise))
    /\ UNCHANGED <<calls, currentCalls, issued, scriptRefs>>

CreateRejected == \E r \in creates : Tick /\ createRejected(r)

----------------------------------------------------------------------------
(* The script-side methods of Call *)

Element(name, url) == [name |-> name, url |-> url]

RedirectElement == Element("Redirect", "/webhook?source=redirect")

\* VoiceResponse.toString()
toString(voiceResponse) == TwimlValue(voiceResponse)

\* The verbs of a document, not counting the <Redirect> sendResponse() adds.
Verbs(voiceResponse) ==
    Cardinality({i \in 1 .. Len(voiceResponse) : voiceResponse[i] # RedirectElement})

\* What every script-side method leaves alone.
ScriptFrame(c) ==
    /\ c \in scriptRefs
    /\ UNCHANGED <<currentCalls, creates, issued, scriptRefs>>

addVerb(c, op, element) ==
    /\ ScriptFrame(c)
    /\ Verbs(calls[c].voiceResponse) < MaxVerbs
    /\ calls' = [calls EXCEPT ![c].voiceResponse = Append(@, element)]
    /\ last' = Outcome(op, c, "ok", 0)
    /\ UNCHANGED promises

say(c) == addVerb(c, "say", Element("Say", ""))

play(c) == addVerb(c, "play", Element("Play", ""))

pause(c) == addVerb(c, "pause", Element("Pause", ""))

\* A gather() that lacks the statement delete this.digits.
gatherKeepingDigits(c) ==
    /\ ScriptFrame(c)
    /\ Verbs(calls[c].voiceResponse) < MaxVerbs
    /\ calls' = [calls EXCEPT
           ![c].props = DeleteProps(@, {"finishedOnKey", "speechResult", "confidence"}),
           ![c].voiceResponse = Append(@, Element("Gather", "/webhook?source=gather"))]
    /\ last' = Outcome("gather", c, "ok", 0)
    /\ UNCHANGED promises

\* gather() without arguments: validation sees an empty array of arguments.
gather(c) ==
    /\ ScriptFrame(c)
    /\ Verbs(calls[c].voiceResponse) < MaxVerbs
    /\ validateOptions(<<>>).thrown = "none"
    /\ calls' = [calls EXCEPT
           ![c].props = DeleteProps(@, {"digits", "finishedOnKey",
                                        "speechResult", "confidence"}),
           ![c].voiceResponse = Append(@, Element("Gather", "/webhook?source=gather"))]
    /\ last' = Outcome("gather", c, "ok", 0)
    /\ UNCHANGED promises

\* dial() without arguments.  The step is recorded as "dialVerb": "dial" is
\* the name of the route /dial.
dial(c) ==
    /\ validateOptions(<<>>).thrown = "none"
    /\ addVerb(c, "dialVerb", Element("Dial", "/dial"))

hangup(c) ==
    /\ ScriptFrame(c)
    /\ Verbs(calls[c].voiceResponse) < MaxVerbs
    /\ calls' = [calls EXCEPT ![c].scriptContinues = FALSE,
                              ![c].voiceResponse = Append(@, Element("Hangup", ""))]
    /\ last' = Outcome("hangup", c, "ok", 0)
    /\ UNCHANGED promises

reject(c) ==
    /\ ScriptFrame(c)
    /\ Verbs(calls[c].voiceResponse) < MaxVerbs
    /\ calls' = [calls EXCEPT ![c].scriptContinues = FALSE,
                              ![c].voiceResponse = Append(@, Element("Reject", ""))]
    /\ last' = Outcome("reject", c, "ok", 0)
    /\ UNCHANGED promises

\* A cancel() that also rejects the script's Promise with a CallEndedException.
cancelRejecting(c) ==
    /\ ScriptFrame(c)
    /\ calls' = [calls EXCEPT ![c].scriptContinues = FALSE]
    /\ promises' = IF calls[c].webhookReject = 0 THEN promises
                   ELSE Settle(promises, calls[c].webhookReject,
                               "rejected", CallEndedException(c))
    /\ last' = Outcome("cancel", c, "promise", Settled(promises, calls[c].webhookReject))

\* A cancel() that also deletes the call from currentCalls.
cancelDeleting(c) ==
    /\ c \in scriptRefs
    /\ calls' = [calls EXCEPT ![c].scriptContinues = FALSE]
    /\ currentCalls' = [s \in Sids |-> IF currentCalls[s] = c THEN 0 ELSE currentCalls[s]]
    /\ last' = Outcome("cancel", c, "promise", 0)
    /\ UNCHANGED <<promises, creates, issued, scriptRefs>>

\* cancel(): the update request to the provider changes nothing in this process.
cancel(c) ==
    /\ ScriptFrame(c)
    /\ calls' = [calls EXCEPT ![c].scriptContinues = FALSE]
    /\ last' = Outcome("cancel", c, "promise", 0)
    /\ UNCHANGED promises

\* An executor that keeps the resolving functions of the Promise being built
\* before it calls #twimlFulfill.
submitInstallingFirst(c, op, sent, continues, kept) ==
    LET call == calls[c]
        p == Len(promises) + 1
    IN  /\ ScriptFrame(c)
        /\ Len(promises) < MaxPromises
        /\ last' = Outcome(op, c, "promise", Settled(promises, call.twimlFulfill))
        /\ promises' = IF call.twimlFulfill = 0
                       THEN Append(promises, NewPromise("script"))
                       ELSE Append(Settle(promises, call.twimlFulfill, "fulfilled",
                                          toString(sent)),
                                   NewPromise("script"))
        /\ calls' = [calls EXCEPT ![c].voiceResponse = kept,
                                  ![c].scriptContinues = continues,
                                  ![c].webhookFulfill = p,
                                  ![c].webhookReject = p]

\* The executor shared by sendResponse() and sendFinalResponse(): hand twiml to
\* #twimlFulfill, then keep the resolving functions of the Promise being built.
\* With #twimlFulfill undefined the executor throws: the new Promise is rejected
\* and the assignments after the call are not reached.
submit(c, op, sent, continues, kept) ==
    LET call == calls[c]
        p == Len(promises) + 1
    IN  /\ ScriptFrame(c)
        /\ Len(promises) < MaxPromises
        /\ last' = Outcome(op, c, "promise", Settled(promises, call.twimlFulfill))
        /\ IF call.twimlFulfill = 0
           THEN /\ promises' = Append(promises,
                       [kind |-> "script", state |-> "rejected",
                        value |-> ErrorValue("TypeError")])
                /\ calls' = [calls EXCEPT ![c].voiceResponse = sent,
                                          ![c].scriptContinues = continues]
           ELSE /\ promises' = Append(
                       Settle(promises, call.twimlFulfill, "fulfilled", toString(sent)),
                       NewPromise("script"))
                /\ calls' = [calls EXCEPT ![c].voiceResponse = kept,
                                          ![c].scriptContinues = continues,
                                          ![c].webhookFulfill = p,
                                          ![c].webhookReject = p]

\* A sendResponse() that adds the <Redirect> whatever #scriptContinues is.
RedirectedAlways(call) == Append(call.voiceResponse, RedirectElement)

\* The document sendResponse() serialises: a <Redirect> is added first when
\* the script continues.
Redirected(call) ==
    IF call.scriptContinues
    THEN Append(call.voiceResponse, RedirectElement)
    ELSE call.voiceResponse

\* A sendResponse() that starts the next step with #scriptContinues set again.
sendResponseResuming(c) ==
    submit(c, "sendResponse", Redirected(calls[c]), TRUE, <<>>)

sendResponse(c) ==
    LET call == calls[c]
        sent == Redirected(call)
    IN  submit(c, "sendResponse", sent, call.scriptContinues,
               IF call.scriptContinues THEN <<>> ELSE sent)

sendFinalResponse(c) ==
    submit(c, "sendFinalResponse", calls[c].voiceResponse, FALSE, calls[c].voiceResponse)

\* A nextEvent() that also hands the document to the waiting response.
nextEventSending(c) ==
    submit(c, "nextEvent", calls[c].voiceResponse, calls[c].scriptContinues,
           calls[c].voiceResponse)

nextEvent(c) ==
    LET p == Len(promises) + 1
    IN  /\ ScriptFrame(c)
        /\ Len(promises) < MaxPromises
        /\ promises' = Append(promises, NewPromise("script"))
        /\ calls' = [calls EXCEPT ![c].webhookFulfill = p, ![c].webhookReject = p]
        /\ last' = Outcome("nextEvent", c, "promise", 0)

Say == \E c \in CallIds : Tick /\ say(c)
Play == \E c \in CallIds : Tick /\ play(c)
Pause == \E c \in CallIds : Tick /\ pause(c)
Gather == \E c \in CallIds : Tick /\ gather(c)
Dial == \E c \in CallIds : Tick /\ dial(c)
Hangup == \E c \in CallIds : Tick /\ hangup(c)
Reject == \E c \in CallIds : Tick /\ reject(c)
Cancel == \E c \in CallIds : Tick /\ cancel(c)
SendResponse == \E c \in CallIds : Tick /\ sendResponse(c)
SendFinalResponse == \E c \in CallIds : Tick /\ sendFinalResponse(c)
NextEvent == \E c \in CallIds : Tick /\ nextEvent(c)

----------------------------------------------------------------------------
(* The callback handlers of Call and the Express routes *)

Registered(sid) == sid \in Sids /\ currentCalls[sid] # 0

\* The route's own answer when the call SID is missing or not in currentCalls.
NotFound(op, code, sid) ==
    /\ last' = [Outcome(op, 0, code, 0) EXCEPT !.sid = sid]
    /\ UNCHANGED <<calls, currentCalls, promises, creates, issued, scriptRefs>>

\* A handler that sets eventSource but forgets #updateProperties(request.body).
mergedSourceOnly(c, body, source) == [calls[c] EXCEPT !.eventSource = source]

\* #updateProperties(request.body); this.eventSource = source
merged(c, body, source) ==
    [calls[c] EXCEPT !.props = updateProperties(@, body), !.eventSource = source]

\* A handler that dies on calling an undefined resolving function: what it
\* assigned before stays, Express answers 500.
Thrown(c, op, call) ==
    /\ calls' = [calls EXCEPT ![c] = call]
    /\ last' = Outcome(op, c, "500", 0)
    /\ UNCHANGED <<currentCalls, promises, scriptRefs>>

\* #getTwiml(response) after this.#webhookFulfill(this): the response waits
\* for the Promise p, whose resolving functions replace the ones kept before.
fulfillAndGetTwiml(c, op, call) ==
    LET p == Len(promises) + 1
    IN  /\ promises' = Append(
                Settle(promises, call.webhookFulfill, "fulfilled", CallValue(c)),
                NewPromise("twiml"))
        /\ scriptRefs' = scriptRefs
                \cup Learns(promises, call.webhookFulfill, CallValue(c))
        /\ calls' = [calls EXCEPT ![c] = [call EXCEPT !.twimlFulfill = p,
                                                     !.twimlReject = p]]
        /\ last' = Outcome(op, c, "pending", Settled(promises, call.webhookFulfill))
        /\ UNCHANGED currentCalls

respondToWebhook(c, body) ==
    LET call == merged(c, body, "webhook")
    IN  /\ Len(promises) < MaxPromises
        /\ UNCHANGED <<creates, issued>>
        /\ IF call.webhookFulfill = 0
           THEN Thrown(c, "webhook", call)
           ELSE fulfillAndGetTwiml(c, "webhook", call)

Terminal == {"canceled", "busy", "no-answer", "failed", "completed"}

\* A switch that lacks the case 'ringing'.
ProgressWithoutRinging == {"initiated", "in-progress"}

Progress == {"initiated", "ringing", "in-progress"}

\* A case 'completed' that rejects without looking at #scriptContinues.
RejectsCompleted(call) == Prop(call.props, "status") = "completed"

\* A switch whose busy, no-answer, canceled and failed fall into case 'completed'.
RejectsTerminal(call) ==
    /\ Prop(call.props, "status") \in Terminal
    /\ call.scriptContinues

\* case 'completed': if (this.#scriptContinues) reject, else fulfill
Rejects(call) == Prop(call.props, "status") = "completed" /\ call.scriptContinues

respondToStatusCallback(c, body) ==
    LET call == merged(c, body, "status")
        status == Prop(call.props, "status")
        rejects == Rejects(call)
        p == IF rejects THEN call.webhookReject ELSE call.webhookFulfill
        value == IF rejects THEN CallEndedException(c) ELSE CallValue(c)
    IN  /\ UNCHANGED <<creates, issued>>
        /\ IF status \notin Terminal \cup Progress
           THEN /\ calls' = [calls EXCEPT ![c] = call]
                /\ last' = Outcome("status", c, "204", 0)
                /\ UNCHANGED <<currentCalls, promises, scriptRefs>>
           ELSE IF p = 0
           THEN Thrown(c, "status", call)
           ELSE /\ calls' = [calls EXCEPT ![c] = call]
                /\ promises' = Settle(promises, p,
                                      IF rejects THEN "rejected" ELSE "fulfilled", value)
                /\ scriptRefs' = scriptRefs \cup Learns(promises, p, value)
                /\ currentCalls' =
                       IF status \in Terminal /\ Prop(call.props, "sid") \in Sids
                       THEN [currentCalls EXCEPT ![Prop(call.props, "sid")] = 0]
                       ELSE currentCalls
                /\ last' = Outcome("status", c, "204", Settled(promises, p))

\* A handler that assigns childCalls a new list holding only the new record.
respondToChildStatusCallbackReplacing(c, body) ==
    LET call == [calls[c] EXCEPT !.childCalls = <<childProperties(body)>>,
                                 !.eventSource = "dial"]
    IN  /\ Len(calls[c].childCalls) < MaxChildCalls
        /\ Len(promises) < MaxPromises
        /\ UNCHANGED <<creates, issued>>
        /\ IF call.webhookFulfill = 0
           THEN Thrown(c, "dial", call)
           ELSE IF call.scriptContinues
           THEN fulfillAndGetTwiml(c, "dial", call)
           ELSE /\ calls' = [calls EXCEPT ![c] = call]
                /\ promises' = Settle(promises, call.webhookFulfill,
                                      "fulfilled", CallValue(c))
                /\ scriptRefs' = scriptRefs
                        \cup Learns(promises, call.webhookFulfill, CallValue(c))
                /\ last' = Outcome("dial", c, "xml", Settled(promises, call.webhookFulfill))
                /\ UNCHANGED currentCalls

respondToChildStatusCallback(c, body) ==
    LET call == [calls[c] EXCEPT !.childCalls = Append(@, childProperties(body)),
                                 !.eventSource = "dial"]
    IN  /\ Len(calls[c].childCalls) < MaxChildCalls
        /\ Len(promises) < MaxPromises
        /\ UNCHANGED <<creates, issued>>
        /\ IF call.webhookFulfill = 0
           THEN Thrown(c, "dial", call)
           ELSE IF call.scriptContinues
           THEN fulfillAndGetTwiml(c, "dial", call)
           ELSE /\ calls' = [calls EXCEPT ![c] = call]
                /\ promises' = Settle(promises, call.webhookFulfill,
                                      "fulfilled", CallValue(c))
                /\ scriptRefs' = scriptRefs
                        \cup Learns(promises, call.webhookFulfill, CallValue(c))
                /\ last' = Outcome("dial", c, "xml", Settled(promises, call.webhookFulfill))
                /\ UNCHANGED currentCalls

\* A handler that also signals the script, as the other handlers do.
respondToAmdStatusCallbackFulfilling(c, body) ==
    /\ calls' = [calls EXCEPT ![c] = merged(c, body, "asyncAmd")]
    /\ promises' = IF calls[c].webhookFulfill = 0 THEN promises
                   ELSE Settle(promises, calls[c].webhookFulfill, "fulfilled", CallValue(c))
    /\ last' = Outcome("amd", c, "204", 0)
    /\ UNCHANGED <<currentCalls, creates, issued, scriptRefs>>

respondToAmdStatusCallback(c, body) ==
    /\ calls' = [calls EXCEPT ![c] = merged(c, body, "asyncAmd")]
    /\ last' = Outcome("amd", c, "204", 0)
    /\ UNCHANGED <<currentCalls, promises, creates, issued, scriptRefs>>

\* The bodies the provider (or any HTTP client) posts.
NoSidBody == << <<"CallStatus", "in-progress">> >>

WebhookBodies ==
    {NoSidBody}
    \cup { << <<"CallSid", s>>, <<"CallStatus", "in-progress">> >> \o f :
             s \in Sids, f \in { << <<"ApiVersion", "2010-04-01">> >>,
                                 << <<"Digits", "5">> >> } }

StatusBody(s, st) == << <<"CallSid", s>>, <<"CallStatus", st>>, <<"Timestamp", "t">> >>

StatusBodies == {NoSidBody} \cup { StatusBody(s, st) : s \in Sids, st \in Statuses }

DialBodies ==
    {NoSidBody}
    \cup { << <<"CallSid", s>>, <<"DialCallStatus", st>>, <<"DialCallSid", "CA9">>,
              <<"ApiVersion", "2010-04-01">> >> :
             s \in Sids, st \in {"busy"} }

\* Child legs that end in different ways.
ChildBodies ==
    {NoSidBody}
    \cup { << <<"CallSid", s>>, <<"DialCallStatus", st>>, <<"DialCallSid", "CA9">>,
              <<"ApiVersion", "2010-04-01">> >> :
             s \in Sids, st \in {"busy", "completed"} }

InboundBodies ==
    {NoSidBody}
    \cup { << <<"CallSid", s>>, <<"From", "+15550111">>, <<"To", "+15550100">>,
              <<"CallStatus", "ringing">>, <<"Direction", "inbound">> >> :
             s \in Sids }

\* Status requests of an HTTP client other than the provider: a JSON body
\* with a field named toString, or with a field sid after CallSid.
CraftedBodies ==
    { << <<"CallSid", s>>, <<"CallStatus", st>>, f >> :
        s \in Sids, st \in {"in-progress", "completed"},
        f \in {<<"toString", "x">>} \cup { <<"sid", t>> : t \in Sids } }

AmdBodies ==
    {NoSidBody}
    \cup { << <<"CallSid", s>>, <<"AnsweredBy", a>> >> :
             s \in Sids, a \in {"human"} }

postWebhook(body) ==
    LET sid == Field(body, "CallSid")
    IN  IF sid # Undefined /\ Registered(sid)
        THEN respondToWebhook(currentCalls[sid], body)
        ELSE NotFound("webhook", "204", sid)

PostWebhook == \E body \in WebhookBodies : Tick /\ postWebhook(body)

postStatus(body) ==
    LET sid == Field(body, "CallSid")
    IN  IF sid # Undefined /\ Registered(sid)
        THEN respondToStatusCallback(currentCalls[sid], body)
        ELSE NotFound("status", "204", sid)

PostStatus == \E body \in StatusBodies : Tick /\ postStatus(body)

PostCrafted == \E body \in CraftedBodies : Tick /\ postStatus(body)

postDial(body) ==
    LET sid == Field(body, "CallSid")
    IN  IF sid # Undefined /\ Registered(sid)
        THEN respondToChildStatusCallback(currentCalls[sid], body)
        ELSE NotFound("dial", "204", sid)

PostDial == \E body \in DialBodies : Tick /\ postDial(body)

PostDialAny == \E body \in ChildBodies : Tick /\ postDial(body)

\* new Call(request.body); _respondToInboundCall(response); inboundScript(call)
postInbound(body) ==
    LET sid == Field(body, "CallSid")
        c == Len(calls) + 1
        p == Len(promises) + 1
    IN  IF sid # Undefined
        THEN /\ sid \in issued \cup {NextSid}
             /\ Len(calls) < MaxCalls
             /\ Len(promises) < MaxPromises
             /\ calls' = Append(calls,
                    [NewCall(body, 0) EXCEPT !.eventSource = "inbound",
                                             !.twimlFulfill = p,
                                             !.twimlReject = p])
             /\ currentCalls' = [currentCalls EXCEPT ![sid] = c]
             /\ promises' = Append(promises, NewPromise("twiml"))
             /\ issued' = issued \cup {sid}
             /\ scriptRefs' = scriptRefs \cup {c}
             /\ last' = Outcome("inbound", c, "pending", 0)
             /\ UNCHANGED creates
        ELSE NotFound("inbound", "400", sid)

PostInbound == \E body \in InboundBodies : Tick /\ postInbound(body)

\* A route that looks at the registry only after it has used the entry.
postAmdUnchecked(body) ==
    LET sid == Field(body, "CallSid")
    IN  IF sid # Undefined /\ Registered(sid)
        THEN respondToAmdStatusCallback(currentCalls[sid], body)
        ELSE NotFound("amd", IF sid # Undefined THEN "500" ELSE "204", sid)

postAmd(body) ==
    LET sid == Field(body, "CallSid")
    IN  IF sid # Undefined /\ Registered(sid)
        THEN respondToAmdStatusCallback(currentCalls[sid], body)
        ELSE NotFound("amd", "204", sid)

PostAmd == \E body \in AmdBodies : Tick /\ postAmd(body)

----------------------------------------------------------------------------
(* utils/twiml.js: the VoiceResponse proxy that validates verbs and attributes *)

\* Support for these TwiML verbs has not yet been added.
forbiddenVerbs ==
    {"connect", "echo", "enqueue", "leave", "pay", "record", "redirect", "refer",
     "siprec", "sms", "stream"}

\* As above, but <Redirect> is allowed for use within the call module.
forbiddenVerbsInternal ==
    {"connect", "echo", "enqueue", "leave", "pay", "record", "refer", "siprec",
     "sms", "stream"}

forbiddenAttributes ==
    {"fallbackUrl", "fallbackMethod", "applicationSid", "action",
     "partialResultsCallback", "partialResultsCallbackMethod",
     "actionOnEmptyResult", "method", "recordingStatusCallback",
     "recordingStatusCallbackMethod", "referUrl", "referMethod",
     "statusCallback", "statusCallbackMethod", "eventCallbackUrl", "url",
     "amdStatusCallback", "amdStatusCallbackMethod"}

\* The nouns proxyElements lists under dial.
DialNouns == {"number", "client", "sip", "conference", "queue"}

\* The node of proxyElements for a proxied name: gather, dial, or one of the
\* nouns nested under dial.
proxyElement(name) ==
    [disallowed |-> forbiddenAttributes,
     actionUrl  |-> CASE name = "gather" -> "webhook"
                      [] name = "dial"   -> "dial"
                      [] OTHER           -> Undefined,
     proxy      |-> IF name = "dial" THEN DialNouns ELSE {}]

proxyElements ==
    [disallowed |-> forbiddenVerbs, actionUrl |-> Undefined,
     proxy |-> {"gather", "dial"}]

\* Version of the above for use within the call module.
proxyElementsInternal == [proxyElements EXCEPT !.disallowed = forbiddenVerbsInternal]

\* getUrl(endpoint) of call.js: the path of the endpoint on this server.
getUrl(endpoint) == <<"/", endpoint>>

\* Arguments of a call: an attribute object is a sequence of <<name, value>>
\* pairs in insertion order, a string is its text.
Object(attributes) == [type |-> "object", attributes |-> attributes]
String(text) == [type |-> "string", text |-> text]
IsObject(args) == Len(args) > 0 /\ args[1].type = "object"
IsString(args) == Len(args) > 0 /\ args[1].type = "string"
Attributes(object) == {object[i][1] : i \in 1..Len(object)}

\* object[name] = value: replaces the value in place or adds the property last.
SetAttribute(object, name, value) ==
    IF name \in Attributes(object)
    THEN [i \in 1..Len(object) |->
            IF object[i][1] = name THEN <<name, value>> ELSE object[i]]
    ELSE Append(object, <<name, value>>)

\* The methods of a VoiceResponse that a script can reach, and target[property]:
\* a method of the VoiceResponse, undefined for anything read from a function.
VoiceResponse == [type |-> "object", name |-> "VoiceResponse"]
Methods == {"say", "play", "pause", "gather", "dial", "hangup", "reject", "redirect"}
Function(name) == [type |-> "function", name |-> name]
NotDefined == [type |-> "undefined", name |-> Undefined]
Member(target, property) ==
    IF target = VoiceResponse /\ property \in Methods
    THEN Function(property) ELSE NotDefined

\* What a trap returns or throws.
Returns(value, proxied, node) ==
    [thrown |-> "none", value |-> value, proxied |-> proxied, node |-> node]
Throws(error) ==
    [thrown |-> error, value |-> NotDefined, proxied |-> FALSE, node |-> proxyElements]

\* new Proxy(obj, ...) throws a TypeError when obj is not an object.
getProxy(obj, node) ==
    IF obj = NotDefined THEN Throws("TypeError") ELSE Returns(obj, TRUE, node)

\* The get trap of a proxy for node: reading property of target.
get(node, target, property) ==
    IF property \in node.disallowed THEN Throws("TypeError")
    ELSE IF property \in node.proxy
    THEN getProxy(Member(target, property), proxyElement(property))
    ELSE Returns(Member(target, property), FALSE, proxyElements)

\* An injection that forgets the caller's string when it builds the attributes.
applyArgsDroppingText(node, args) ==
    IF node.actionUrl = Undefined THEN args
    ELSE IF Len(args) = 0 \/ IsString(args)
    THEN <<Object(<<<<"action", getUrl(node.actionUrl)>>>>)>>
    ELSE IF IsObject(args)
    THEN [args EXCEPT ![1].attributes = SetAttribute(@, "action", getUrl(node.actionUrl))]
    ELSE args

\* The arguments the apply trap hands to the proxied function.
applyArgs(node, args) ==
    IF node.actionUrl = Undefined THEN args
    ELSE IF Len(args) = 0
    THEN <<Object(<<<<"action", getUrl(node.actionUrl)>>>>)>>
    ELSE IF IsObject(args)
    THEN [args EXCEPT ![1].attributes = SetAttribute(@, "action", getUrl(node.actionUrl))]
    ELSE IF IsString(args)
    THEN <<Object(<<<<"action", getUrl(node.actionUrl)>>>>), args[1]>>
    ELSE args

\* The attributes of the caller that the apply trap refuses.
DisallowedIn(node, args) ==
    IF IsObject(args) THEN Attributes(args[1].attributes) \cap node.disallowed ELSE {}

\* An apply trap that overrides the action without validating the attributes.
applyOverriding(node, target, args) == Returns(applyArgs(node, args), FALSE, node)

\* The apply trap of a proxy for node: calling the proxied function.
apply(node, target, args) ==
    IF DisallowedIn(node, args) # {} THEN Throws("TypeError")
    ELSE Returns(applyArgs(node, args), FALSE, node)

\* The library's element for a verb or noun called with (attributes, text),
\* (attributes) or (text).
Tag(name) ==
    CASE name = "say" -> "Say"       [] name = "play" -> "Play"
      [] name = "pause" -> "Pause"   [] name = "gather" -> "Gather"
      [] name = "dial" -> "Dial"     [] name = "hangup" -> "Hangup"
      [] name = "reject" -> "Reject" [] name = "redirect" -> "Redirect"
      [] name = "number" -> "Number" [] name = "client" -> "Client"
      [] name = "sip" -> "Sip"       [] name = "conference" -> "Conference"
      [] name = "queue" -> "Queue"

TwimlElement(name, args) ==
    [name |-> Tag(name),
     attributes |-> IF IsObject(args) THEN args[1].attributes ELSE <<>>,
     text |-> IF IsString(args) THEN args[1].text
              ELSE IF Len(args) >= 2 /\ args[2].type = "string" THEN args[2].text
              ELSE Undefined,
     nouns |-> <<>>]

\* The last call on the builder: its arguments as the caller wrote them and
\* what it threw.
Result(op, verb, noun, args, thrown) ==
    [op |-> op, verb |-> verb, noun |-> noun, args |-> args, thrown |-> thrown]

\* The number of elements of a document, nested nouns included.
RECURSIVE Size(_)
Size(response) ==
    IF response = <<>> THEN 0
    ELSE 1 + Len(Head(response).nouns) + Size(Tail(response))

\* One profile for both builders, as if the internal list had been assigned
\* into proxyElements itself.
ProfileShared(internal) == proxyElementsInternal

\* The validation profile of the builder.
Profile(internal) == IF internal THEN proxyElementsInternal ELSE proxyElements

\* makeTwiml() and _makeTwiml(): a proxy of a new, empty VoiceResponse.
makeTwiml == Twiml(FALSE)
makeTwimlInternal == Twiml(TRUE)

\* An operation on the builder leaves the calls alone.
TwimlTick ==
    /\ steps < budget
    /\ steps' = steps + 1
    /\ UNCHANGED <<budget, calls, currentCalls, promises, creates, issued,
                   scriptRefs, last, timeouts>>

MakeTwiml ==
    /\ TwimlTick
    /\ twimlProxy' \in {makeTwiml, makeTwimlInternal}

\* twiml.verb(...args): the get trap of the root proxy, then either the apply
\* trap of the proxied gather or dial, or the library's own method.
callVerb(verb, args) ==
    LET got == get(Profile(twimlProxy.internal), VoiceResponse, verb)
        applied == IF got.thrown = "none" /\ got.proxied
                   THEN apply(got.node, got.value, args)
                   ELSE Returns(args, FALSE, got.node)
        thrown == IF got.thrown # "none" THEN got.thrown
                  ELSE IF got.value = NotDefined THEN "TypeError"
                  ELSE applied.thrown
    IN  /\ thrown # "none" \/ Size(twimlProxy.response) < MaxElements
        /\ twimlProxy' =
             [twimlProxy EXCEPT
                !.response = IF thrown = "none"
                             THEN Append(@, TwimlElement(verb, applied.value))
                             ELSE @,
                !.result = Result("verb", verb, Undefined, args, thrown)]

\* dial.noun(...args) on the Dial that twiml.dial() returned for element i:
\* Reflect.apply hands back the library's own Dial, which is not proxied.
callNoun(i, noun, args) ==
    /\ twimlProxy.response[i].name = "Dial"
    /\ Size(twimlProxy.response) < MaxElements
    /\ twimlProxy' =
         [twimlProxy EXCEPT
            !.response[i].nouns = Append(@, TwimlElement(noun, args)),
            !.result = Result("noun", "dial", noun, args, "none")]

\* twiml.verb.noun(...args): the get trap of the root proxy, then the get trap of
\* the proxy of the verb's function, then a call of what that returns.
getNoun(verb, noun, args) ==
    LET got == get(Profile(twimlProxy.internal), VoiceResponse, verb)
        inner == IF got.thrown # "none" THEN got
                 ELSE IF got.value = NotDefined THEN Throws("TypeError")
                 ELSE IF got.proxied THEN get(got.node, got.value, noun)
                 ELSE Returns(Member(got.value, noun), FALSE, got.node)
        applied == IF inner.thrown # "none" THEN inner
                   ELSE IF inner.value = NotDefined THEN Throws("TypeError")
                   ELSE IF inner.proxied THEN apply(inner.node, inner.value, args)
                   ELSE Returns(args, FALSE, inner.node)
    IN  /\ applied.thrown # "none"
        /\ twimlProxy' =
             [twimlProxy EXCEPT
                !.result = Result("get", verb, noun, args, applied.thrown)]

\* The verbs, attributes and arguments a script tries.  Every attribute is
\* tried on gather and on dial; a noun of dial and a verb without a proxy of
\* its own are tried with a few arguments only.
TwimlVerbs == {"say", "play", "pause", "gather", "dial", "hangup", "reject"} \cup forbiddenVerbs
CallerAttributes == forbiddenAttributes \cup {"timeout"}
AttributeObjects ==
    {<<>>}
      \cup {<<<<a, "v">>>> : a \in CallerAttributes}
      \cup {<<<<"timeout", "v">>, <<a, "v">>>> : a \in {"action", "url"}}
      \cup {<<<<a, "v">>, <<"timeout", "v">>>> : a \in {"action", "statusCallback"}}
ArgumentLists ==
    {<<>>, <<String("1234")>>}
      \cup {<<Object(o)>> : o \in AttributeObjects}
      \cup {<<Object(<<<<a, "v">>>>), String("1234")>> : a \in {"timeout", "action"}}
FewArgumentLists ==
    {<<String("1234")>>}
      \cup {<<Object(<<<<a, "v">>>>), String("1234")>> :
               a \in {"statusCallback", "url", "waitUrl", "timeout"}}
ArgumentsFor(verb) ==
    IF verb \in {"gather", "dial"} THEN ArgumentLists
    ELSE IF verb \in DialNouns THEN FewArgumentLists
    ELSE {<<>>}

CallVerb ==
    \E verb \in TwimlVerbs : \E args \in ArgumentsFor(verb) :
        TwimlTick /\ callVerb(verb, args)

CallNoun ==
    \E i \in 1..Len(twimlProxy.response), noun \in DialNouns :
        \E args \in ArgumentsFor(noun) : TwimlTick /\ callNoun(i, noun, args)

GetNoun ==
    \E verb \in {"dial", "say", "redirect"}, noun \in DialNouns,
       args \in FewArgumentLists :
        TwimlTick /\ getNoun(verb, noun, args)

\* A script building one document with the builder.
NextTwiml ==
    \/ MakeTwiml
    \/ CallVerb
    \/ CallNoun
    \/ GetNoun

\* A run has room for the elements and one refused call.
InitTwiml == Started /\ budget = MaxElements + 1 /\ twimlProxy = makeTwiml

SpecTwiml == InitTwiml /\ [][NextTwiml]_vars

----------------------------------------------------------------------------
(* utils/timeout.js: the class Timeout *)

\* The state of a Promise: pending, fulfilled with a value or rejected with
\* an error.  An error is the name of its class and its message.
Pending == [state |-> "pending", tag |-> "none", value |-> Undefined]
Fulfilled(value) == [state |-> "fulfilled", tag |-> "value", value |-> value]
Rejected(class, message) == [state |-> "rejected", tag |-> class, value |-> message]

\* new TimeoutException(reason), as a rejection
TimeoutException(reason) == Rejected("TimeoutException", reason)

\* What the timer callback does to this.#promise.
Expired(reason) ==
    IF reason = Undefined THEN Fulfilled(Undefined) ELSE TimeoutException(reason)

\* The Promises a script passes to apply(): pending, or settled before the
\* Timeout is made.
Outcomes == {Fulfilled("42"), Fulfilled(Undefined), Rejected("Error", "Error 42")}

\* new Timeout(delay, reason), to be applied to the Promise input.  promise
\* is this.#promise; then is the Promise input.then(...) of apply() and race
\* the Promise apply() returns, both "none" before apply().  first tells
\* which of input and the timer came first, late that apply() was called
\* after the timer had fired: two facts of the past the properties refer to.
NewTimeout(reason, input) ==
    [reason |-> reason, timerId |-> "armed", promise |-> Pending,
     input |-> input, applied |-> FALSE,
     then |-> Pending, race |-> Pending,
     first |-> IF input = Pending THEN "none" ELSE "input",
     late |-> FALSE]

TimeoutIds == 1 .. Len(timeouts.made)

\* A step of utils/timeout.js leaves the calls and the builder alone.
TimeoutTick ==
    /\ steps < budget
    /\ steps' = steps + 1
    /\ UNCHANGED <<budget, calls, currentCalls, promises, creates, issued,
                   scriptRefs, last, twimlProxy>>

\* constructor(delay, reason): setTimeout() arms the timer.
constructor(reason, input) ==
    /\ Len(timeouts.made) < MaxTimeouts
    /\ timeouts' = [timeouts EXCEPT !.made = Append(@, NewTimeout(reason, input))]

\* apply(promise): promise.then(...) is evaluated first and queues its
\* reaction when promise is settled; Promise.race() then subscribes to
\* this.#promise, which queues a reaction when the timer has fired.
applyTimeout(t) ==
    LET timeout == timeouts.made[t]
    IN  /\ ~timeout.applied
        /\ timeouts' =
             [made |-> [timeouts.made EXCEPT
                          ![t].applied = TRUE,
                          ![t].late = (timeout.timerId = "fired")],
              jobs |-> timeouts.jobs
                         \o (IF timeout.input # Pending THEN << <<"then", t>> >>
                             ELSE <<>>)
                         \o (IF timeout.promise # Pending THEN << <<"race", t, "promise">> >>
                             ELSE <<>>)]

\* The operation the timeout is applied to completes or fails.
settle(t, outcome) ==
    LET timeout == timeouts.made[t]
    IN  /\ timeout.input = Pending
        /\ timeouts' =
             [made |-> [timeouts.made EXCEPT
                          ![t].input = outcome,
                          ![t].first = IF @ = "none" THEN "input" ELSE @],
              jobs |-> IF timeout.applied
                       THEN Append(timeouts.jobs, <<"then", t>>)
                       ELSE timeouts.jobs]

\* The callback of setTimeout(): a task, run only when no reaction job is
\* queued and the timer has not been cleared.
timerFires(t) ==
    LET timeout == timeouts.made[t]
    IN  /\ timeouts.jobs = <<>>
        /\ timeout.timerId = "armed"
        /\ timeouts' =
             [made |-> [timeouts.made EXCEPT
                          ![t].timerId = "fired",
                          ![t].promise = Expired(timeout.reason),
                          ![t].first = IF @ = "none" THEN "timer" ELSE @],
              jobs |-> IF timeout.applied
                       THEN Append(timeouts.jobs, <<"race", t, "promise">>)
                       ELSE timeouts.jobs]

\* An onRejected handler that returns the error instead of rejecting with it.
onRejectedReturning(t) == <<"resolved", t>>

\* err => { clearTimeout(this.#timerId); return Promise.reject(err); }: the
\* returned Promise is a thenable, adopted in two more jobs.
onRejected(t) == <<"thenable", t>>

\* The reaction jobs.  then: the handlers of apply(); thenable, adopt: the
\* Promise of then takes the state of the rejected Promise the handler
\* returned; race: Promise.race() is settled by the Promise named.
runJob ==
    LET job == Head(timeouts.jobs)
        t == job[2]
        timeout == timeouts.made[t]
        rest == Tail(timeouts.jobs)
        cleared == IF timeout.timerId = "armed" THEN "cleared" ELSE timeout.timerId
    IN  /\ timeouts.jobs # <<>>
        /\ timeouts' =
             CASE job[1] = "then" /\ timeout.input.state = "fulfilled" ->
                    [made |-> [timeouts.made EXCEPT ![t].timerId = cleared,
                                                    ![t].then = timeout.input],
                     jobs |-> Append(rest, <<"race", t, "then">>)]
               [] job[1] = "then" /\ timeout.input.state = "rejected" ->
                    [made |-> [timeouts.made EXCEPT ![t].timerId = cleared],
                     jobs |-> Append(rest, onRejected(t))]
               [] job[1] = "resolved" ->
                    [made |-> [timeouts.made EXCEPT
                                 ![t].then = Fulfilled(timeout.input.value)],
                     jobs |-> Append(rest, <<"race", t, "then">>)]
               [] job[1] = "thenable" ->
                    [made |-> timeouts.made, jobs |-> Append(rest, <<"adopt", t>>)]
               [] job[1] = "adopt" ->
                    [made |-> [timeouts.made EXCEPT ![t].then = timeout.input],
                     jobs |-> Append(rest, <<"race", t, "then">>)]
               [] job[1] = "race" ->
                    [made |-> [timeouts.made EXCEPT
                                 ![t].race = IF @ = Pending THEN timeout[job[3]] ELSE @],
                     jobs |-> rest]

Reasons == {Undefined, "Should time out"}

Construct ==
    \E reason \in Reasons, input \in {Pending} \cup Outcomes :
        TimeoutTick /\ constructor(reason, input)

ApplyTimeout == \E t \in TimeoutIds : TimeoutTick /\ applyTimeout(t)

InputSettles == \E t \in TimeoutIds, outcome \in Outcomes : TimeoutTick /\ settle(t, outcome)

TimerFires == \E t \in TimeoutIds : TimeoutTick /\ timerFires(t)

RunJob == TimeoutTick /\ runJob

NextTimeout ==
    \/ Construct
    \/ ApplyTimeout
    \/ InputSettles
    \/ TimerFires
    \/ RunJob

InitTimeout == Started /\ budget = MaxTimeoutSteps /\ twimlProxy = Twiml(FALSE)

SpecTimeout == InitTimeout /\ [][NextTimeout]_vars

----------------------------------------------------------------------------
Next ==
    \/ MakeCall
    \/ CreateFulfilled
    \/ CreateRejected
    \/ Say
    \/ Gather
    \/ Dial
    \/ Hangup
    \/ Reject
    \/ Cancel
    \/ SendResponse
    \/ SendFinalResponse
    \/ NextEvent
    \/ PostWebhook
    \/ PostStatus
    \/ PostDial
    \/ PostInbound
    \/ PostAmd

Spec == Init /\ [][Next]_vars

\* The same operations in runs one step shorter.
InitShort == Started /\ budget = MaxShortSteps /\ twimlProxy = Twiml(FALSE)

SpecShort == InitShort /\ [][Next]_vars

\* A webhook or status request for a SID that is not in currentCalls: the
\* route answers 204.  Such requests can arrive at any time, without end.
PostUnknown ==
    /\ \E body \in WebhookBodies \cup StatusBodies :
          /\ ~Registered(Field(body, "CallSid"))
          /\ \/ body \in WebhookBodies /\ postWebhook(body)
             \/ body \in StatusBodies /\ postStatus(body)
    /\ UNCHANGED <<steps, budget, twimlProxy, timeouts>>

NextFair ==
    \/ Next
    \/ PostUnknown

\* The event loop keeps running: as long as a request can arrive or a script
\* can take its next step, one of them does.
SpecFair == InitShort /\ [][NextFair]_vars /\ WF_vars(NextFair)

\* makeCall() with lists of status callback events, and create() succeeding.
NextValidate ==
    \/ MakeCallWithEvents
    \/ CreateFulfilled

InitValidate == Started /\ budget = MaxValidateSteps /\ twimlProxy = Twiml(FALSE)

SpecValidate == InitValidate /\ [][NextValidate]_vars

\* makeCall() with every shape of arguments, and the events that settle it.
NextMakeCall ==
    \/ MakeCallAny
    \/ CreateFulfilled
    \/ CreateRejected
    \/ PostWebhook
    \/ PostStatus

SpecMakeCall == Init /\ [][NextMakeCall]_vars

\* Longer runs of one outbound call whose script submits documents.
NextSubmit ==
    \/ MakeCall
    \/ CreateFulfilled
    \/ PostStatus
    \/ PostWebhook
    \/ Hangup
    \/ Reject
    \/ SendResponse
    \/ SendFinalResponse

\* The routes with the requests of any HTTP client.
NextCrafted ==
    \/ MakeCall
    \/ CreateFulfilled
    \/ PostInbound
    \/ PostStatus
    \/ PostCrafted

SpecCrafted == Init /\ [][NextCrafted]_vars

\* The requests of the provider alone: calls are created and the five routes
\* are posted to, in any order, while the scripts make no move.
NextRoutes ==
    \/ MakeCall
    \/ CreateFulfilled
    \/ PostWebhook
    \/ PostStatus
    \/ PostDial
    \/ PostInbound
    \/ PostAmd

SpecRoutes == Init /\ [][NextRoutes]_vars

\* Calls whose dialed legs end one after the other.
NextDial ==
    \/ MakeCall
    \/ CreateFulfilled
    \/ PostInbound
    \/ PostWebhook
    \/ Hangup
    \/ SendResponse
    \/ NextEvent
    \/ PostDialAny

SpecDial == Init /\ [][NextDial]_vars

InitSubmit == Started /\ budget = MaxLongSteps /\ twimlProxy = Twiml(FALSE)

SpecSubmit == InitSubmit /\ [][NextSubmit]_vars

----------------------------------------------------------------------------
(* Vocabulary of the properties *)

\* Call c waits with a pending Promise in its script slot (#webhookFulfill).
ScriptPending(cs, ps, c) ==
    /\ cs[c].webhookFulfill # 0
    /\ ps[cs[c].webhookFulfill].state = "pending"

\* An HTTP response of call c waits with a pending Promise in the TwiML slot.
TwimlPending(cs, ps, c) ==
    /\ cs[c].twimlFulfill # 0
    /\ ps[cs[c].twimlFulfill].state = "pending"

\* This step is POST /status with status st for the registered Call c.
HandlesStatus(c, st) ==
    LET sid == Prop(calls[c].props, "sid")
    IN  /\ last'.op = "status"
        /\ last'.call = c
        /\ sid \in Sids
        /\ currentCalls[sid] = c
        /\ postStatus(StatusBody(sid, st))

\* This step is the script calling sendResponse() or sendFinalResponse() on c.
Sends(c, op) == last'.op = op /\ last'.call = c /\ steps' # steps

Contains(twiml, element) == \E i \in 1 .. Len(twiml) : twiml[i] = element

EndsWith(twiml, element) == twiml # <<>> /\ twiml[Len(twiml)] = element

\* The TwiML the HTTP response of call c is given in this step.
HandedOver(c) == promises'[calls[c].twimlFulfill].value.twiml

----------------------------------------------------------------------------
(* C1 *)

\* C1: when a status event 'completed' is handled for a call whose script
\* Promise is pending, that Promise is rejected with a CallEndedException
\* carrying the call if #scriptContinues is true, and fulfilled with the call
\* (not rejected) if #scriptContinues is false.
CompletedSettlesScript ==
    [][\A c \in CallIds :
          (HandlesStatus(c, "completed") /\ ScriptPending(calls, promises, c))
          => LET p == calls[c].webhookFulfill
             IN  IF calls[c].scriptContinues
                 THEN /\ promises'[p].state = "rejected"
                      /\ promises'[p].value = CallEndedException(c)
                 ELSE /\ promises'[p].state = "fulfilled"
                      /\ promises'[p].value = CallValue(c)]_vars

\* A 'completed' status event has just rejected a pending script Promise.
CompletedRejected ==
    /\ last.op = "status"
    /\ last.settled # 0
    /\ Prop(calls[last.call].props, "status") = "completed"
    /\ calls[last.call].scriptContinues
    /\ promises[last.settled].state = "rejected"
    /\ promises[last.settled].value = CallEndedException(last.call)

----------------------------------------------------------------------------
(* C2 *)

\* C2 as stated: the TwiML sendResponse() hands to a waiting HTTP response
\* always ends with the <Redirect> to /webhook, and the TwiML
\* sendFinalResponse() hands over never contains it.
SendResponseAlwaysRedirects ==
    [][\A c \in CallIds :
          /\ (Sends(c, "sendResponse") /\ TwimlPending(calls, promises, c))
             => EndsWith(HandedOver(c), RedirectElement)
          /\ (Sends(c, "sendFinalResponse") /\ TwimlPending(calls, promises, c))
             => ~Contains(HandedOver(c), RedirectElement)]_vars

\* C2 amended: sendResponse() hands over the accumulated document with the
\* <Redirect> appended as its last element when #scriptContinues is true, and
\* the accumulated document with nothing appended when it is false (after
\* hangup, reject or cancel); sendFinalResponse() appends nothing.
SendResponseRedirectsWhileScriptContinues ==
    [][\A c \in CallIds :
          /\ (Sends(c, "sendResponse") /\ TwimlPending(calls, promises, c))
             => /\ promises'[calls[c].twimlFulfill].state = "fulfilled"
                /\ HandedOver(c) =
                       IF calls[c].scriptContinues
                       THEN Append(calls[c].voiceResponse, RedirectElement)
                       ELSE calls[c].voiceResponse
          /\ (Sends(c, "sendFinalResponse") /\ TwimlPending(calls, promises, c))
             => /\ promises'[calls[c].twimlFulfill].state = "fulfilled"
                /\ HandedOver(c) = calls[c].voiceResponse]_vars

\* sendResponse() after hangup() or reject() has just handed over TwiML
\* without a <Redirect>.
SentWithoutRedirect ==
    /\ last.op = "sendResponse"
    /\ last.settled # 0
    /\ ~calls[last.call].scriptContinues
    /\ promises[last.settled].state = "fulfilled"
    /\ promises[last.settled].value.twiml # <<>>
    /\ ~Contains(promises[last.settled].value.twiml, RedirectElement)

----------------------------------------------------------------------------
(* C3 *)

\* C3: no operation replaces a still-pending Promise in the script slot or
\* in the TwiML slot of a call: a slot is given a new Promise only after the
\* Promise it held has been fulfilled or rejected.
NoPendingContinuationReplaced ==
    [][\A c \in CallIds :
          /\ (ScriptPending(calls, promises, c)
              /\ promises'[calls[c].webhookFulfill].state = "pending")
             => calls'[c].webhookFulfill = calls[c].webhookFulfill
          /\ (TwimlPending(calls, promises, c)
              /\ promises'[calls[c].twimlFulfill].state = "pending")
             => calls'[c].twimlFulfill = calls[c].twimlFulfill]_vars

----------------------------------------------------------------------------
(* C4 *)

\* C4: #scriptContinues of a new Call is true, and once it is false no later
\* step makes it true again.
ScriptContinuesNeverResumes ==
    [][/\ \A c \in CallIds : ~calls[c].scriptContinues => ~calls'[c].scriptContinues
       /\ \A c \in (1 .. Len(calls')) \ CallIds : calls'[c].scriptContinues]_vars

\* A call whose script has ended has gone through a later script operation
\* or provider event.
EndedThenContinued ==
    /\ last.op \in {"sendResponse", "nextEvent", "webhook", "status", "dial", "amd"}
    /\ last.call # 0
    /\ ~calls[last.call].scriptContinues

----------------------------------------------------------------------------
(* C5 *)

\* C5: a status event with a terminal status removes the call from
\* currentCalls and is acknowledged with 204; every later webhook, status,
\* dial or AMD callback for a call SID that is not registered is acknowledged
\* with 204 and changes no Call, no Promise and not the registry.
TerminalStatusRemovesSession ==
    [][/\ \A c \in CallIds : \A st \in Terminal :
              HandlesStatus(c, st)
              => /\ currentCalls'[Prop(calls[c].props, "sid")] = 0
                 /\ last'.result = "204"
       /\ (last'.op \in {"webhook", "status", "dial", "amd"}
           /\ last'.call = 0 /\ steps' # steps)
          => /\ last'.result = "204"
             /\ UNCHANGED <<calls, currentCalls, promises>>]_vars

----------------------------------------------------------------------------
(* C6 *)

Unanswered == {"busy", "no-answer", "canceled", "failed"}

\* C6: a status event busy, no-answer, canceled or failed for a call whose
\* script Promise is pending fulfills that Promise with the call, whatever
\* #scriptContinues is, and the call then carries that status.
UnansweredFulfillsScript ==
    [][\A c \in CallIds : \A st \in Unanswered :
          (HandlesStatus(c, st) /\ ScriptPending(calls, promises, c))
          => LET p == calls[c].webhookFulfill
             IN  /\ promises'[p].state = "fulfilled"
                 /\ promises'[p].value = CallValue(c)
                 /\ Prop(calls'[c].props, "status") = st
                 /\ calls'[c].eventSource = "status"]_vars

\* A busy, no-answer, canceled or failed status event has just fulfilled the
\* script Promise of a call whose #scriptContinues is still true.
UnansweredFulfilled ==
    /\ last.op = "status"
    /\ last.settled # 0
    /\ Prop(calls[last.call].props, "status") \in Unanswered
    /\ calls[last.call].scriptContinues
    /\ promises[last.settled].state = "fulfilled"
    /\ promises[last.settled].value = CallValue(last.call)

----------------------------------------------------------------------------
(* C7 *)

\* C7 as stated: a status event queued, initiated, ringing or in-progress
\* for a call whose script Promise is pending fulfills that Promise with the
\* call and leaves the call in currentCalls.
NonTerminalStatusFulfills ==
    [][\A c \in CallIds : \A st \in Statuses \ Terminal :
          (HandlesStatus(c, st) /\ ScriptPending(calls, promises, c))
          => /\ promises'[calls[c].webhookFulfill].state = "fulfilled"
             /\ promises'[calls[c].webhookFulfill].value = CallValue(c)
             /\ currentCalls' = currentCalls]_vars

\* C7 amended: a status event initiated, ringing or in-progress for a call
\* whose script Promise is pending fulfills that Promise with the call; a
\* status event queued settles no Promise; in both cases the call stays in
\* currentCalls.
ProgressStatusFulfills ==
    [][\A c \in CallIds : \A st \in Statuses \ Terminal :
          (HandlesStatus(c, st) /\ ScriptPending(calls, promises, c))
          => /\ currentCalls' = currentCalls
             /\ IF st = "queued"
                THEN promises' = promises
                ELSE /\ promises'[calls[c].webhookFulfill].state = "fulfilled"
                     /\ promises'[calls[c].webhookFulfill].value = CallValue(c)]_vars

\* A ringing status event has just fulfilled the script Promise of a call
\* that is still registered.
RingingFulfilled ==
    /\ last.op = "status"
    /\ last.settled # 0
    /\ Prop(calls[last.call].props, "status") = "ringing"
    /\ promises[last.settled].state = "fulfilled"
    /\ currentCalls[Prop(calls[last.call].props, "sid")] = last.call

----------------------------------------------------------------------------
(* C8 *)

\* C8: a pending Promise in the script slot of a call becomes rejected only
\* by a 'completed' status event for that call handled while #scriptContinues
\* is true; no other callback and no script-side operation rejects it.
OnlyCompletedRejectsScript ==
    [][\A c \in CallIds :
          (ScriptPending(calls, promises, c)
           /\ promises'[calls[c].webhookFulfill].state = "rejected")
          => /\ HandlesStatus(c, "completed")
             /\ calls[c].scriptContinues]_vars

\* cancel() has just run on a call whose script Promise is pending, and the
\* Promise is still pending.
CancelledWhilePending ==
    /\ last.op = "cancel"
    /\ ScriptPending(calls, promises, last.call)

----------------------------------------------------------------------------
(* C9 *)

ReservedRoutingOptions ==
    {"url", "fallbackUrl", "statusCallback", "recordingStatusCallback",
     "amdStatusCallback", "applicationSid"}

\* C9: makeCall() with an option named url, fallbackUrl, statusCallback,
\* recordingStatusCallback, amdStatusCallback or applicationSid throws a
\* TypeError, sends no create request and registers no call.
ReservedOptionThrowsTypeError ==
    [][\A to \in Numbers, from \in Numbers, options \in MakeCallOptions :
          (/\ makeCall(to, from, options)
           /\ \E i \in 1 .. Len(options) : options[i][1] \in ReservedRoutingOptions)
          => /\ last'.result = "TypeError"
             /\ UNCHANGED <<creates, calls, currentCalls, promises>>]_vars

----------------------------------------------------------------------------
(* C10 *)

\* C10: when the create request of makeCall() fails, the Promise makeCall()
\* returned is rejected with the failure, no Call is constructed or
\* registered, and no Promise is pending that was not pending before.
CreateFailureRejectsMakeCall ==
    [][\A r \in creates :
          createRejected(r)
          => /\ promises'[r.promise].state = "rejected"
             /\ promises'[r.promise].value = ErrorValue("Error")
             /\ calls' = calls
             /\ currentCalls' = currentCalls
             /\ \A p \in DOMAIN promises' :
                    promises'[p].state = "pending"
                    => p \in DOMAIN promises /\ promises[p].state = "pending"]_vars

\* A failed create request has just rejected the Promise of a makeCall()
\* while no call is registered.
MakeCallRejected ==
    /\ last.op = "create.catch"
    /\ last.settled # 0
    /\ promises[last.settled].state = "rejected"
    /\ promises[last.settled].value = ErrorValue("Error")
    /\ \A s \in Sids : currentCalls[s] = 0

----------------------------------------------------------------------------
(* C11 *)

\* C11: the success of the create request registers the new Call under its
\* SID and leaves the Promise of makeCall() pending in the Call's script
\* slot; a pending Promise in a script slot is fulfilled only by a webhook,
\* status or dial callback routed to that Call, which is registered under its
\* SID when the callback arrives.
RegisteredBeforeFulfilled ==
    [][/\ \A r \in creates : \A sid \in Sids :
              (last'.op = "create.then" /\ createFulfilled(r, sid))
              => /\ promises'[r.promise].state = "pending"
                 /\ currentCalls'[sid] = Len(calls')
                 /\ calls'[currentCalls'[sid]].webhookFulfill = r.promise
       /\ \A c \in CallIds :
              (ScriptPending(calls, promises, c)
               /\ promises'[calls[c].webhookFulfill].state = "fulfilled")
              => /\ Prop(calls[c].props, "sid") \in Sids
                 /\ currentCalls[Prop(calls[c].props, "sid")] = c
                 /\ last'.op \in {"webhook", "status", "dial"}
                 /\ last'.call = c]_vars

\* The first webhook of an outbound call has just fulfilled the Promise of
\* makeCall() with the registered Call.
MakeCallFulfilledByWebhook ==
    /\ last.op = "webhook"
    /\ last.settled = 1
    /\ promises[1].state = "fulfilled"
    /\ promises[1].value = CallValue(last.call)
    /\ Prop(calls[last.call].props, "direction") = "outbound-api"
    /\ currentCalls[Prop(calls[last.call].props, "sid")] = last.call

----------------------------------------------------------------------------
(* C12 *)

ScriptOperations ==
    {"say", "play", "pause", "gather", "dialVerb", "hangup", "reject", "cancel",
     "sendResponse", "sendFinalResponse", "nextEvent"}

\* C12: cancel() sets #scriptContinues to false and changes neither the
\* script slot, nor the TwiML slot, nor any Promise, nor currentCalls; an
\* entry of currentCalls is deleted only by a status event with a terminal
\* status for the call registered there, and no script-side operation
\* changes currentCalls.
CancelOnlyEndsScript ==
    [][/\ \A c \in CallIds :
              (last'.op = "cancel" /\ cancel(c))
              => /\ ~calls'[c].scriptContinues
                 /\ calls'[c] = [calls[c] EXCEPT !.scriptContinues = FALSE]
                 /\ promises' = promises
                 /\ currentCalls' = currentCalls
       /\ \A s \in Sids :
              (currentCalls[s] # 0 /\ currentCalls'[s] = 0)
              => /\ last'.op = "status"
                 /\ last'.call = currentCalls[s]
                 /\ Prop(calls'[last'.call].props, "status") \in Terminal
       /\ (last'.op \in ScriptOperations /\ steps' # steps)
          => currentCalls' = currentCalls]_vars

\* cancel() has just run on a registered call whose HTTP response is still
\* waiting for TwiML: the call is still registered and the response still
\* waits.
CancelledStillRegistered ==
    /\ last.op = "cancel"
    /\ ~calls[last.call].scriptContinues
    /\ currentCalls[Prop(calls[last.call].props, "sid")] = last.call
    /\ TwimlPending(calls, promises, last.call)

----------------------------------------------------------------------------
(* C13 *)

\* This step is POST /webhook with body for the registered Call c.
HandlesWebhook(c, body) ==
    /\ last'.op = "webhook"
    /\ last'.call = c
    /\ Field(body, "CallSid") \in Sids
    /\ currentCalls[Field(body, "CallSid")] = c
    /\ postWebhook(body)

\* Every mapped field of body is the value of its property of Call c.
Carries(call, body) ==
    \A i \in 1 .. Len(body) :
        body[i][1] \in DOMAIN PropertyMappings
        => Prop(call.props, PropertyMappings[body[i][1]]) = body[i][2]

\* C13: when a webhook fulfills the pending script Promise of a call, the
\* Call the script is resumed with already carries every mapped field of that
\* webhook (digits = "5" for Digits = "5") and has eventSource 'webhook'.
WebhookResumesWithFields ==
    [][\A c \in CallIds : \A body \in WebhookBodies :
          (HandlesWebhook(c, body) /\ ScriptPending(calls, promises, c))
          => /\ promises'[calls[c].webhookFulfill].state = "fulfilled"
             /\ promises'[calls[c].webhookFulfill].value = CallValue(c)
             /\ calls'[c].eventSource = "webhook"
             /\ Carries(calls'[c], body)]_vars

\* After gather() and sendResponse() handed a <Gather> to the provider, a
\* webhook with Digits = "5" has just resumed the script.
ResumedWithDigits ==
    /\ last.op = "webhook"
    /\ last.settled # 0
    /\ promises[last.settled].state = "fulfilled"
    /\ promises[last.settled].value = CallValue(last.call)
    /\ Prop(calls[last.call].props, "digits") = "5"
    /\ calls[last.call].eventSource = "webhook"
    /\ \E p \in 1 .. Len(promises) :
           /\ promises[p].kind = "twiml"
           /\ promises[p].state = "fulfilled"
           /\ Contains(promises[p].value.twiml,
                       Element("Gather", "/webhook?source=gather"))

----------------------------------------------------------------------------
(* C14 *)

GatherProperties == {"digits", "finishedOnKey", "speechResult", "confidence"}

\* C14: gather() leaves digits, finishedOnKey, speechResult and confidence
\* of the call unset and every other property as it was; afterwards one of
\* these four properties gets a value only from a callback for that call
\* whose body carries that value.
GatherClearsCollected ==
    [][\A c \in CallIds :
          /\ (last'.op = "gather" /\ last'.call = c /\ gather(c))
             => /\ \A n \in GatherProperties : Prop(calls'[c].props, n) = Undefined
                /\ \A n \in PropertyNames \ GatherProperties :
                       Prop(calls'[c].props, n) = Prop(calls[c].props, n)
          /\ \A n \in GatherProperties :
                 (/\ Prop(calls'[c].props, n) # Prop(calls[c].props, n)
                  /\ Prop(calls'[c].props, n) # Undefined)
                 => \E body \in WebhookBodies :
                        /\ HandlesWebhook(c, body)
                        /\ \E i \in 1 .. Len(body) :
                               /\ body[i][1] \in DOMAIN PropertyMappings
                               /\ PropertyMappings[body[i][1]] = n
                               /\ body[i][2] = Prop(calls'[c].props, n)]_vars

\* gather() has just run on a call that a webhook had updated before: the
\* four properties are unset and the document holds the <Gather>.
GatheredAfterWebhook ==
    /\ last.op = "gather"
    /\ calls[last.call].eventSource = "webhook"
    /\ \A n \in GatherProperties : Prop(calls[last.call].props, n) = Undefined
    /\ Prop(calls[last.call].props, "status") = "in-progress"
    /\ Contains(calls[last.call].voiceResponse,
                Element("Gather", "/webhook?source=gather"))

----------------------------------------------------------------------------
(* C15 *)

\* hangup() or reject() has added its verb to the document of the call.
Ended(call) ==
    \/ Contains(call.voiceResponse, Element("Hangup", ""))
    \/ Contains(call.voiceResponse, Element("Reject", ""))

\* C15: hangup() and reject() set #scriptContinues to false; a document that
\* sendResponse() or sendFinalResponse() hands to a waiting HTTP response
\* after hangup() or reject() contains no <Redirect>; a document that
\* sendResponse() hands over while #scriptContinues is true ends with the
\* <Redirect>.
NoRedirectAfterHangup ==
    [][\A c \in CallIds :
          /\ (last'.op \in {"hangup", "reject"} /\ last'.call = c /\ steps' # steps)
             => ~calls'[c].scriptContinues
          /\ (/\ Sends(c, "sendResponse") \/ Sends(c, "sendFinalResponse")
              /\ TwimlPending(calls, promises, c)
              /\ Ended(calls[c]))
             => ~Contains(HandedOver(c), RedirectElement)
          /\ (/\ Sends(c, "sendResponse")
              /\ TwimlPending(calls, promises, c)
              /\ calls[c].scriptContinues)
             => EndsWith(HandedOver(c), RedirectElement)]_vars

----------------------------------------------------------------------------
(* Vocabulary of the properties of the builder *)

\* The step is the call twiml.verb(...args), args being the arguments the
\* builder recorded.
CallsVerb(verb) ==
    /\ twimlProxy'.result.op = "verb"
    /\ twimlProxy'.result.verb = verb
    /\ callVerb(verb, twimlProxy'.result.args)

\* The attribute names an argument list sets.
Sets(args) == IF IsObject(args) THEN Attributes(args[1].attributes) ELSE {}

\* The document has an element, or a noun of an element, with the attribute.
HasAttribute(response, a) ==
    \E i \in 1..Len(response) :
        \/ a \in Attributes(response[i].attributes)
        \/ \E j \in 1..Len(response[i].nouns) :
              a \in Attributes(response[i].nouns[j].attributes)

----------------------------------------------------------------------------
----------------------------------------------------------------------------
\* C17: a noun added to the element that dial() returned never puts a
\* reserved attribute into the document: no noun of the document carries an
\* attribute of the forbidden list.
NounsCarryNoReservedAttribute ==
    \A i \in 1..Len(twimlProxy.response) :
        \A j \in 1..Len(twimlProxy.response[i].nouns) :
            Attributes(twimlProxy.response[i].nouns[j].attributes)
                \cap forbiddenAttributes = {}

----------------------------------------------------------------------------
\* C18: every gather element carries the URL of the webhook endpoint and every
\* dial element the URL of the dial endpoint as its action, whether the verb
\* was called without arguments, with an attribute object first or with a
\* string first; the element has exactly that one action, and the caller's
\* attributes and text are in it as the caller gave them.
Endpoint(verb) == IF verb = "gather" THEN "webhook" ELSE "dial"

Last(response) == response[Len(response)]

CallerText(args) ==
    IF IsString(args) THEN args[1].text
    ELSE IF Len(args) >= 2 /\ args[2].type = "string" THEN args[2].text
    ELSE Undefined

Pairs(object) == {object[i] : i \in 1..Len(object)}

ActionInjected ==
    [][\A verb \in {"gather", "dial"} :
         (CallsVerb(verb) /\ twimlProxy'.result.thrown = "none")
           => LET args == twimlProxy'.result.args
                  element == Last(twimlProxy'.response)
              IN  /\ Len(twimlProxy'.response) = Len(twimlProxy.response) + 1
                  /\ element.name = Tag(verb)
                  /\ \E k \in 1..Len(element.attributes) :
                        /\ element.attributes[k] = <<"action", getUrl(Endpoint(verb))>>
                        /\ \A n \in 1..Len(element.attributes) :
                              element.attributes[n][1] = "action" => n = k
                  /\ Pairs(element.attributes) \ {<<"action", getUrl(Endpoint(verb))>>}
                        = IF IsObject(args) THEN Pairs(args[1].attributes) ELSE {}
                  /\ element.text = CallerText(args)]_vars

\* dial("1234") gave a Dial with the action and the number.
DialedWithString ==
    /\ twimlProxy.result.op = "verb"
    /\ twimlProxy.result.verb = "dial"
    /\ twimlProxy.result.args = <<String("1234")>>
    /\ twimlProxy.result.thrown = "none"
    /\ Last(twimlProxy.response).attributes = <<<<"action", getUrl("dial")>>>>
    /\ Last(twimlProxy.response).text = "1234"

----------------------------------------------------------------------------
\* C19: on the builder of makeTwiml() a call of connect, echo, enqueue, leave,
\* pay, record, redirect, refer, siprec, sms or stream throws a TypeError, the
\* error a forbidden attribute gets, and adds nothing; the builder of
\* _makeTwiml() accepts redirect and only redirect of these.
UnsupportedVerbs ==
    {"connect", "echo", "enqueue", "leave", "pay", "record", "redirect", "refer",
     "siprec", "sms", "stream"}

UnsupportedVerbsRefused ==
    [][\A verb \in UnsupportedVerbs :
         CallsVerb(verb) =>
            IF twimlProxy.internal /\ verb = "redirect"
            THEN /\ twimlProxy'.result.thrown = "none"
                 /\ Len(twimlProxy'.response) = Len(twimlProxy.response) + 1
                 /\ Last(twimlProxy'.response).name = "Redirect"
            ELSE /\ twimlProxy'.result.thrown = "TypeError"
                 /\ twimlProxy'.response = twimlProxy.response]_vars

\* The internal builder took a redirect.
InternalRedirectAccepted ==
    /\ twimlProxy.internal
    /\ twimlProxy.result.op = "verb"
    /\ twimlProxy.result.verb = "redirect"
    /\ twimlProxy.result.thrown = "none"
    /\ Last(twimlProxy.response).name = "Redirect"

----------------------------------------------------------------------------
\* This step is POST /dial with body for the registered Call c.
HandlesDial(c, body) ==
    /\ last'.op = "dial"
    /\ last'.call = c
    /\ Field(body, "CallSid") \in Sids
    /\ currentCalls[Field(body, "CallSid")] = c
    /\ postDial(body)

\* The record has the mapped fields of body and nothing else.
MappedFieldsOnly(record, body) ==
    /\ \A i \in 1 .. Len(body) :
          body[i][1] \in DOMAIN PropertyMappings
          => Prop(record, PropertyMappings[body[i][1]]) = body[i][2]
    /\ \A n \in DOMAIN record :
          Prop(record, n) # Undefined
          => \E i \in 1 .. Len(body) :
                /\ body[i][1] \in DOMAIN PropertyMappings
                /\ PropertyMappings[body[i][1]] = n

\* C20: a child-leg status event handled for a registered call leaves the
\* earlier records of childCalls as they were and adds one record after them,
\* made of the mapped fields of the event and nothing else; a pending script
\* Promise of the call is fulfilled with the call.
ChildStatusAppendsOneRecord ==
    [][\A c \in CallIds : \A body \in ChildBodies :
          HandlesDial(c, body)
          => LET before == calls[c].childCalls
                 after == calls'[c].childCalls
             IN  /\ Len(after) = Len(before) + 1
                 /\ \A i \in 1 .. Len(before) : after[i] = before[i]
                 /\ MappedFieldsOnly(after[Len(after)], body)
                 /\ ScriptPending(calls, promises, c)
                    => /\ promises'[calls[c].webhookFulfill].state = "fulfilled"
                       /\ promises'[calls[c].webhookFulfill].value = CallValue(c)]_vars

\* A second child leg of a call has just ended, differently from the first,
\* and the waiting script was resumed with the call.
SecondChildEnded ==
    /\ last.op = "dial"
    /\ last.call \in CallIds
    /\ Len(calls[last.call].childCalls) = 2
    /\ Prop(calls[last.call].childCalls[1], "dialCallStatus")
         # Prop(calls[last.call].childCalls[2], "dialCallStatus")
    /\ last.settled # 0
    /\ promises[last.settled].state = "fulfilled"
    /\ promises[last.settled].value = CallValue(last.call)

----------------------------------------------------------------------------
\* C21: on a child-leg status event of a registered call whose script
\* continues, the HTTP response is left waiting on a new, pending TwiML
\* Promise; when the script has finished, the response is sent at once (an
\* empty document) and the TwiML slot of the call is left as it was.
ChildStatusSuspendsOrAnswers ==
    [][\A c \in CallIds : \A body \in ChildBodies :
          HandlesDial(c, body)
          => IF calls[c].scriptContinues
             THEN /\ last'.result = "pending"
                  /\ calls'[c].twimlFulfill = Len(promises) + 1
                  /\ Len(promises') = Len(promises) + 1
                  /\ promises'[calls'[c].twimlFulfill] = NewPromise("twiml")
             ELSE /\ last'.result = "xml"
                  /\ calls'[c].twimlFulfill = calls[c].twimlFulfill
                  /\ Len(promises') = Len(promises)]_vars

----------------------------------------------------------------------------
\* This step is POST /amd with body for the registered Call c.
HandlesAmd(c, body) ==
    /\ last'.op = "amd"
    /\ last'.call = c
    /\ Field(body, "CallSid") \in Sids
    /\ currentCalls[Field(body, "CallSid")] = c
    /\ postAmd(body)

\* The properties body has no field for are what they were.
OtherPropertiesKept(before, after, body) ==
    \A n \in PropertyNames :
        (\A i \in 1 .. Len(body) :
            body[i][1] \in DOMAIN PropertyMappings => PropertyMappings[body[i][1]] # n)
        => Prop(after.props, n) = Prop(before.props, n)

\* C22: an AMD event of a registered call stores its mapped fields and sets
\* eventSource, and changes nothing else: every Promise, both slots of the
\* call, scriptContinues, the document, childCalls, the other calls and the
\* registry are what they were.
AmdOnlyMerges ==
    [][\A c \in CallIds : \A body \in AmdBodies :
          HandlesAmd(c, body)
          => /\ promises' = promises
             /\ currentCalls' = currentCalls
             /\ calls' = [calls EXCEPT ![c] = [calls[c] EXCEPT
                                                 !.props = calls'[c].props,
                                                 !.eventSource = "asyncAmd"]]
             /\ Carries(calls'[c], body)
             /\ OtherPropertiesKept(calls[c], calls'[c], body)
             /\ last'.result = "204"]_vars

\* An AMD result arrived while the script was waiting, and it still waits.
AmdWhileScriptWaits ==
    /\ last.op = "amd"
    /\ last.call \in CallIds
    /\ Prop(calls[last.call].props, "answeredBy") = "human"
    /\ calls[last.call].eventSource = "asyncAmd"
    /\ ScriptPending(calls, promises, last.call)

----------------------------------------------------------------------------
\* The bodies posted to a route, and the route's handling of one of them.
Bodies(op) ==
    CASE op = "webhook" -> WebhookBodies
      [] op = "status"  -> StatusBodies \cup CraftedBodies
      [] op = "dial"    -> DialBodies
      [] op = "inbound" -> InboundBodies
      [] op = "amd"     -> AmdBodies

Posts(op, body) ==
    /\ last'.op = op
    /\ CASE op = "webhook" -> postWebhook(body)
         [] op = "status"  -> postStatus(body)
         [] op = "dial"    -> postDial(body)
         [] op = "inbound" -> postInbound(body)
         [] op = "amd"     -> postAmd(body)

\* The body names a call that is not in currentCalls.
Unknown(body) ==
    /\ Field(body, "CallSid") \in Sids
    /\ currentCalls[Field(body, "CallSid")] = 0

----------------------------------------------------------------------------
\* C24: on every route a body without a call SID is answered with a client
\* error (400) and changes no Call, no Promise and no registry entry.
NoSidIsClientError ==
    [][last'.op \in {"webhook", "status", "dial", "inbound", "amd"}
       => \A body \in Bodies(last'.op) :
             (Field(body, "CallSid") = Undefined /\ Posts(last'.op, body))
             => /\ last'.result = "400"
                /\ calls' = calls
                /\ currentCalls' = currentCalls
                /\ promises' = promises]_vars

----------------------------------------------------------------------------
\* The Promise in a slot is what it was (slot 0 holds none).
SlotKept(p) == p = 0 \/ promises'[p] = promises[p]

\* C25: a step that handles an event of, or runs a script operation on, one
\* Call leaves every other Call as it was: its properties, scriptContinues,
\* childCalls, document, the Promises in its script and TwiML slots, and its
\* entry in currentCalls.
SessionsIndependent ==
    [][\A d \in CallIds :
          d # last'.call
          => /\ calls'[d] = calls[d]
             /\ SlotKept(calls[d].webhookFulfill)
             /\ SlotKept(calls[d].twimlFulfill)
             /\ \A s \in Sids : currentCalls[s] = d => currentCalls'[s] = d]_vars

----------------------------------------------------------------------------
\* The slot holds a Promise that is settled already.
AlreadySettled(p) == p # 0 /\ promises[p].state # "pending"

\* C26: a step that calls the resolving function of a Promise that is settled
\* already fails: sendResponse() or sendFinalResponse() on a settled TwiML
\* Promise returns a rejected Promise, and a handler that signals a settled
\* script Promise answers with an error.
SettledContinuationRefused ==
    [][\A c \in CallIds :
          last'.call = c
          => /\ (/\ last'.op \in {"sendResponse", "sendFinalResponse"}
                 /\ AlreadySettled(calls[c].twimlFulfill))
                => promises'[Len(promises')].state = "rejected"
             /\ (/\ last'.op \in {"webhook", "dial"}
                 /\ AlreadySettled(calls[c].webhookFulfill))
                => last'.result = "500"
             /\ (/\ last'.op = "status"
                 /\ Prop(calls'[c].props, "status") \in Terminal \cup Progress
                 /\ AlreadySettled(calls[c].webhookFulfill))
                => last'.result = "500"]_vars

----------------------------------------------------------------------------
\* C27: when a webhook, status, child-status or AMD event is handled for a
\* registered call that has no pending script Promise, the handler does not
\* fail, settles and creates no Promise, and leaves both slots of the call as
\* they were, while the event is still recorded in the call.
UnexpectedEventIsHarmless ==
    [][\A c \in CallIds :
          (/\ last'.call = c
           /\ last'.op \in {"webhook", "status", "dial", "amd"}
           /\ ~ScriptPending(calls, promises, c))
          => /\ last'.result # "500"
             /\ promises' = promises
             /\ calls'[c].webhookFulfill = calls[c].webhookFulfill
             /\ calls'[c].twimlFulfill = calls[c].twimlFulfill
             /\ calls'[c].eventSource # calls[c].eventSource
                \/ calls'[c].eventSource \in {"webhook", "status", "dial", "asyncAmd"}]_vars

----------------------------------------------------------------------------
\* C28: a webhook handled for a call whose TwiML Promise is still pending
\* is a no-op: the TwiML slot keeps that Promise and no Promise is created,
\* so the first responder is the one the next sendResponse() answers.
SecondWebhookIsNoOp ==
    [][\A c \in CallIds :
          (/\ last'.call = c
           /\ last'.op = "webhook"
           /\ TwimlPending(calls, promises, c))
          => /\ calls'[c].twimlFulfill = calls[c].twimlFulfill
             /\ Len(promises') = Len(promises)]_vars

----------------------------------------------------------------------------
\* The value the fields of body give property n: the last field of body that
\* the table maps to n, or what the property was.
Stored(before, body, n) ==
    LET at == {i \in 1 .. Len(body) :
                 /\ body[i][1] \in DOMAIN PropertyMappings
                 /\ PropertyMappings[body[i][1]] = n}
    IN  IF at = {} THEN Prop(before, n)
        ELSE body[CHOOSE i \in at : \A j \in at : j <= i][2]

\* The call the request is routed to: the registered one, or for /inbound
\* the one the route creates.
RoutedTo(op, body, c) ==
    /\ Field(body, "CallSid") \in Sids
    /\ IF op = "inbound"
       THEN currentCalls'[Field(body, "CallSid")] = c
       ELSE currentCalls[Field(body, "CallSid")] = c

\* What the handler of op merges the body into, before and after: the call's
\* own properties, no properties at all for the call /inbound creates, and
\* for a child-status event a new record, the last one of childCalls.
MergedInto(op, before, after) ==
    CASE op = "inbound" -> <<NoProperties, after.props>>
      [] op = "dial"    -> <<NoProperties, after.childCalls[Len(after.childCalls)]>>
      [] OTHER          -> <<before.props, after.props>>

\* C29: after a request body is merged (into a registered call by a webhook,
\* status or AMD event, into the call an inbound event creates, into the
\* record a child-status event adds), every key of the target has the value
\* of the body field that the table maps to it, and a key no field of the body
\* maps to is what it was.
MergeStoresMappedFieldsOnly ==
    [][\A c \in 1 .. Len(calls') :
          (/\ last'.call = c
           /\ last'.op \in {"webhook", "status", "dial", "amd", "inbound"})
          => \A body \in Bodies(last'.op) :
                (RoutedTo(last'.op, body, c) /\ Posts(last'.op, body))
                => LET target == MergedInto(last'.op,
                                            IF c \in DOMAIN calls THEN calls[c]
                                            ELSE calls'[c], calls'[c])
                   IN  \A n \in Keys \cup DOMAIN target[1] \cup DOMAIN target[2] :
                          Prop(target[2], n) = Stored(target[1], body, n)]_vars

----------------------------------------------------------------------------
\* C30: after every step each call in currentCalls is stored under its own
\* sid, and a call whose sid is set has the same sid after the step.
SidIsRegistryKey ==
    [][/\ \A s \in Sids :
              currentCalls'[s] # 0
              => Prop(calls'[currentCalls'[s]].props, "sid") = s
       /\ \A c \in CallIds :
              Prop(calls[c].props, "sid") # Undefined
              => Prop(calls'[c].props, "sid") = Prop(calls[c].props, "sid")]_vars

----------------------------------------------------------------------------
\* C31: nextEvent() on a call creates one pending script Promise and puts its
\* resolving functions in the script slot; every Promise that existed is as it
\* was, the TwiML slot, #scriptContinues, the document, the properties, the
\* child records and the registry are unchanged.
NextEventOnlyInstalls ==
    [][\A c \in CallIds :
          (last'.op = "nextEvent" /\ last'.call = c)
          => /\ Len(promises') = Len(promises) + 1
             /\ \A p \in 1 .. Len(promises) : promises'[p] = promises[p]
             /\ promises'[Len(promises')] = NewPromise("script")
             /\ calls'[c].webhookFulfill = Len(promises')
             /\ calls'[c].webhookReject = Len(promises')
             /\ calls'[c] = [calls[c] EXCEPT !.webhookFulfill = Len(promises'),
                                             !.webhookReject = Len(promises')]
             /\ \A d \in CallIds \ {c} : calls'[d] = calls[d]
             /\ currentCalls' = currentCalls]_vars

\* nextEvent() has just run on a call whose response is waiting for TwiML and
\* whose document already has a verb.
NextEventWhileResponseWaits ==
    /\ last.op = "nextEvent"
    /\ TwimlPending(calls, promises, last.call)
    /\ calls[last.call].voiceResponse # <<>>
    /\ ScriptPending(calls, promises, last.call)

----------------------------------------------------------------------------
\* C32: after sendResponse() called while #scriptContinues is true the
\* document of the call is empty, and a document that sendResponse() hands to
\* a waiting HTTP response holds nothing of an earlier sendResponse(): its only
\* <Redirect> is its last element.
FreshDocumentAfterSendResponse ==
    [][\A c \in CallIds :
          Sends(c, "sendResponse")
          => /\ calls[c].scriptContinues => calls'[c].voiceResponse = <<>>
             /\ TwimlPending(calls, promises, c)
                => \A i \in 1 .. Len(HandedOver(c)) - 1 :
                       HandedOver(c)[i] # RedirectElement]_vars

----------------------------------------------------------------------------
\* C33: for a Timeout made with a reason and applied before its timer fired,
\* once the Promise of apply() is settled: if the input Promise settled
\* before the timer fired, it has the outcome of the input (its value, or its
\* own error) and the timer is cleared; if the timer fired first, it is
\* rejected with a TimeoutException carrying the reason.
WhicheverComesFirst ==
    \A t \in TimeoutIds :
        LET timeout == timeouts.made[t]
        IN  (/\ timeout.reason # Undefined
             /\ ~timeout.late
             /\ timeout.race # Pending)
            => /\ timeout.first = "input"
                  => /\ timeout.race = timeout.input
                     /\ timeout.timerId = "cleared"
               /\ timeout.first = "timer"
                  => timeout.race = TimeoutException(timeout.reason)

\* The input failed with its own error before the timer fired, and the
\* Promise of apply() is settled.
InputFailedFirst ==
    \E t \in TimeoutIds :
        /\ timeouts.made[t].reason # Undefined
        /\ timeouts.made[t].first = "input"
        /\ timeouts.made[t].input.state = "rejected"
        /\ timeouts.made[t].race # Pending

----------------------------------------------------------------------------
\* C34: a webhook, or a child-status event of a call whose #scriptContinues
\* is true, that finds the script Promise pending fulfils it with the call and
\* puts a new pending Promise in the TwiML slot in the same step; and from
\* then on nothing but sendResponse() or sendFinalResponse() of that call
\* settles or replaces the Promise in the TwiML slot, so that the resumed
\* script hands its document to the request that resumed it.
ResumedScriptAnswersItsRequest ==
    [][\A c \in CallIds :
          /\ (/\ last'.call = c
              /\ last'.op \in {"webhook", "dial"}
              /\ ScriptPending(calls, promises, c)
              /\ last'.op = "dial" => calls[c].scriptContinues)
             => /\ promises'[calls[c].webhookFulfill].state = "fulfilled"
                /\ promises'[calls[c].webhookFulfill].value = CallValue(c)
                /\ calls'[c].eventSource = last'.op
                /\ calls'[c].twimlFulfill = Len(promises')
                /\ promises'[Len(promises')] = NewPromise("twiml")
          /\ (/\ TwimlPending(calls, promises, c)
              /\ ~(Sends(c, "sendResponse") \/ Sends(c, "sendFinalResponse")))
             => /\ calls'[c].twimlFulfill = calls[c].twimlFulfill
                /\ promises'[calls[c].twimlFulfill].state = "pending"]_vars

----------------------------------------------------------------------------
\* C35: a POST /inbound with a CallSid creates the Call with eventSource
\* 'inbound', registers it under the CallSid and puts a new pending Promise
\* in its TwiML slot in the step that hands the Call to the inbound script;
\* and as long as no later event has been handled for the Call, that Promise
\* is settled or replaced by nothing but sendResponse() or
\* sendFinalResponse() of the Call, which fulfils it with the document.
InboundResponderAnswered ==
    [][/\ \A body \in InboundBodies :
             (Posts("inbound", body) /\ Field(body, "CallSid") # Undefined)
             => LET c == Len(calls')
                IN  /\ c = Len(calls) + 1
                    /\ calls'[c].eventSource = "inbound"
                    /\ currentCalls'[Field(body, "CallSid")] = c
                    /\ calls'[c].twimlFulfill = Len(promises')
                    /\ Len(promises') = Len(promises) + 1
                    /\ promises'[Len(promises')] = NewPromise("twiml")
                    /\ c \in scriptRefs' \ scriptRefs
       /\ \A c \in CallIds :
             (/\ calls[c].eventSource = "inbound"
              /\ TwimlPending(calls, promises, c))
             => LET sent == promises'[calls[c].twimlFulfill]
                IN  /\ Sends(c, "sendResponse")
                       => /\ sent.state = "fulfilled"
                          /\ sent.value = toString(Redirected(calls[c]))
                    /\ Sends(c, "sendFinalResponse")
                       => /\ sent.state = "fulfilled"
                          /\ sent.value = toString(calls[c].voiceResponse)
                    /\ ~(Sends(c, "sendResponse") \/ Sends(c, "sendFinalResponse"))
                       => /\ calls'[c].twimlFulfill = calls[c].twimlFulfill
                          /\ sent.state = "pending"]_vars

----------------------------------------------------------------------------
(* C36 *)

\* A terminal status event has been handled for call c and has deleted it
\* from currentCalls.
Removed(c) ==
    /\ c <= Len(calls)
    /\ calls[c].eventSource = "status"
    /\ Prop(calls[c].props, "status") \in Terminal
    /\ Prop(calls[c].props, "sid") \in Sids
    /\ currentCalls[Prop(calls[c].props, "sid")] = 0

\* C36: once a terminal status event has removed a call from currentCalls,
\* every Promise that is in the call's script slot and pending, then or
\* later, is eventually fulfilled or rejected.
NoScriptLeftSuspended ==
    \A c \in 1 .. MaxCalls : \A p \in 1 .. MaxPromises :
        [](( /\ Removed(c)
             /\ calls[c].webhookFulfill = p
             /\ promises[p].state = "pending")
           => <>(p <= Len(promises) /\ promises[p].state # "pending"))

----------------------------------------------------------------------------
\* C37: when sendResponse() or sendFinalResponse() is called on a call for
\* which a request has put a Promise in the TwiML slot, that Promise, the one
\* of the most recent such request, is pending and is fulfilled with the
\* document in this step, and no other TwiML Promise changes; and a TwiML
\* Promise that has been given a document never changes again.
DocumentsPairedWithResponders ==
    [][/\ \A c \in CallIds :
             (/\ Sends(c, "sendResponse") \/ Sends(c, "sendFinalResponse")
              /\ calls[c].twimlFulfill # 0)
             => LET p == calls[c].twimlFulfill
                IN  /\ promises[p].state = "pending"
                    /\ promises'[p].state = "fulfilled"
                    /\ promises'[p].value =
                          IF last'.op = "sendResponse"
                          THEN toString(Redirected(calls[c]))
                          ELSE toString(calls[c].voiceResponse)
                    /\ \A q \in 1 .. Len(promises) :
                          (q # p /\ promises[q].kind = "twiml")
                          => promises'[q] = promises[q]
       /\ \A q \in 1 .. Len(promises) :
             (promises[q].kind = "twiml" /\ promises[q].state # "pending")
             => promises'[q] = promises[q]]_vars

----------------------------------------------------------------------------
\* C38: when sendResponse() or sendFinalResponse() is called on a call whose
\* TwiML slot has never been filled, the Promise it returns is rejected, the
\* resolving functions in the script slot stay the ones installed before, no
\* other Promise changes, and currentCalls is unchanged.
SendWithoutResponderIsRejected ==
    [][\A c \in CallIds :
          (/\ Sends(c, "sendResponse") \/ Sends(c, "sendFinalResponse")
           /\ calls[c].twimlFulfill = 0)
          => /\ Len(promises') = Len(promises) + 1
             /\ promises'[Len(promises')].state = "rejected"
             /\ \A q \in 1 .. Len(promises) : promises'[q] = promises[q]
             /\ calls'[c].webhookFulfill = calls[c].webhookFulfill
             /\ calls'[c].webhookReject = calls[c].webhookReject
             /\ calls'[c].twimlFulfill = 0
             /\ currentCalls' = currentCalls]_vars

\* An outbound call resumed by a status event has called sendResponse() or
\* sendFinalResponse() with an empty TwiML slot, and is still registered.
SentWithoutResponder ==
    /\ last.op \in {"sendResponse", "sendFinalResponse"}
    /\ last.call # 0
    /\ calls[last.call].twimlFulfill = 0
    /\ calls[last.call].webhookFulfill # 0
    /\ promises[Len(promises)].state = "rejected"
    /\ Prop(calls[last.call].props, "sid") \in Sids
    /\ currentCalls[Prop(calls[last.call].props, "sid")] = last.call

----------------------------------------------------------------------------
(* C40 *)

\* The number of times x occurs in list.
Occurrences(list, x) == Cardinality({i \in 1 .. Len(list) : list[i] = x})

\* C40: when makeCall() is given options with a statusCallbackEvent list and
\* passes them to create(), the list create() receives is the given list if
\* that contains 'completed', and the given list with 'completed' added at
\* its end otherwise; the other options are passed as given; and validating
\* the validated list again leaves it as it is.
CompletedAlwaysRequested ==
    [][\A to \in Numbers, from \in Numbers, options \in EventOptions :
          (/\ makeCall(to, from, options)
           /\ last'.result = "promise")
          => \A k \in 1 .. Len(options) :
                IF options[k][1] = "statusCallbackEvent"
                THEN LET given == options[k][2]
                         passed == last'.created[k][2]
                         again == validateOptions(<<last'.created[k]>>).options[1][2]
                     IN  /\ last'.created[k][1] = "statusCallbackEvent"
                         /\ Occurrences(passed, "completed")
                               = IF Occurrences(given, "completed") = 0 THEN 1
                                 ELSE Occurrences(given, "completed")
                         /\ SubSeq(passed, 1, Len(given)) = given
                         /\ Len(passed) = Len(given)
                               + (IF Occurrences(given, "completed") = 0 THEN 1 ELSE 0)
                         /\ again = passed
                ELSE last'.created[k] = options[k]]_vars

\* makeCall() has just passed to create() a statusCallbackEvent list to which
\* 'completed' was added after the events the script asked for.
CompletedAppended ==
    /\ last.op = "makeCall"
    /\ last.result = "promise"
    /\ \E k \in 1 .. Len(last.created) :
          /\ last.created[k][1] = "statusCallbackEvent"
          /\ last.created[k][2] = <<"initiated", "answered", "completed">>

----------------------------------------------------------------------------
\* C39: a call registered under a SID stays registered there in every step
\* except the one that handles a status event with a terminal status for it,
\* and that step deletes the entry; an empty entry of currentCalls is filled
\* only with a newly created Call, by the .then() of makeCall() or by the
\* inbound route, never by a webhook, status, dial or AMD callback.  (A second
\* inbound request for a registered SID is left out of account.)
RegisteredUntilTerminalStatus ==
    [][\A s \in Sids :
          LET c == currentCalls[s]
          IN  /\ (c # 0 /\ last'.op # "inbound")
                 => IF \E st \in Terminal : HandlesStatus(c, st)
                    THEN currentCalls'[s] = 0
                    ELSE currentCalls'[s] = c
              /\ (c = 0 /\ currentCalls'[s] # 0)
                 => /\ last'.op \in {"create.then", "inbound"}
                    /\ Len(calls') = Len(calls) + 1
                    /\ currentCalls'[s] = Len(calls')]_vars

====
